---- MODULE Spec2Model ----
(***************************************************************************)
(* State-machine model of the V2 client grid (TanStackClientGridV2 in      *)
(* src/src/apps/crm/OpportunityList.tsx, lines 800-1674): the view state   *)
(* (sorting, columnOrder, columnFilters, nested view, collapse set, search *)
(* text, selection, pagination), the drag-reorder coordinator's three      *)
(* refs, the per-column filter widgets with their debounce timers, the     *)
(* filter function, the group tree of the nested view, and the inline edit *)
(* session with its onSave collaborator.  Every UI event handler is one    *)
(* atomic action (handlers run to completion on the single event thread);  *)
(* a handler that awaits is one action up to the await and one after it.   *)
(***************************************************************************)
EXTENDS Integers, Sequences, FiniteSets, TLC

(***************************************************************************)
(* Bounds of the model.                                                    *)
(***************************************************************************)
\* number of data columns the user clicks, drags and drops on, in the
\* specifications of the sort gestures and of the drag gestures
MaxCols == 3
\* the same, in the specification that combines clicks with all drags
MaxColsAll == 2
\* longest text the user types into a filter input
MaxTextLen == 2
\* longest cell value, and longest filter text, the filter function is
\* evaluated on
MaxCellLen == 2
\* longest filter text the created_at filter is evaluated on
MaxDateTextLen == 2
\* most rows, and most sort keys, a group tree is built of
MaxGroupRows == 3
MaxGroupKeys == 2
\* number of rows of the row list the grid is mounted with
NumViewRows == 21
\* most onSave calls in flight at a time
MaxPendingSaves == 1
\* number of rows of the row list in the specification of the edit session
NumEditRows == 3

(***************************************************************************)
(* Columns.                                                                *)
(***************************************************************************)
InitialColumnOrder ==
    <<"select", "name", "email", "phone", "company", "created_at", "actions">>

\* the two display columns; their headers are not draggable and not droppable
Synthetic == {"select", "actions"}

DataCols == SelectSeq(InitialColumnOrder, LAMBDA c : c \notin Synthetic)

AllCols == {InitialColumnOrder[i] : i \in 1..Len(InitialColumnOrder)}

\* the data columns the user acts on
UserCols == {DataCols[i] : i \in 1..MaxCols}

\* the header cells the user can point at
Headers == UserCols \cup Synthetic

\* columns and header cells of the combined specification
FewCols == {DataCols[i] : i \in 1..MaxColsAll}
FewHeaders == FewCols \cup Synthetic

\* the column whose filter widget the user operates (the widgets of the
\* other columns are instances of the same component and share no state
\* with it but the columnFilters list)
FilterCols == {DataCols[1]}

\* column.getCanSort(): `select` has enableSorting: false, `actions` is a
\* display column without accessor; the five accessor columns are sortable
getCanSort(c) == c \notin Synthetic

\* the filter row renders a ColumnFilter only where column.getCanFilter()
getCanFilter(c) == c \notin Synthetic

Null == "null"

NoElem == [kind |-> "none", id |-> Null]

(***************************************************************************)
(* JavaScript array helpers, 0-based as in the source.                     *)
(***************************************************************************)
Min2(a, b) == IF a < b THEN a ELSE b
Max2(a, b) == IF a > b THEN a ELSE b

\* Array.prototype.indexOf: first 0-based index of x, -1 when absent
JsIndexOf(s, x) ==
    IF \E i \in 1..Len(s) : s[i] = x
    THEN (CHOOSE i \in 1..Len(s) : s[i] = x /\ \A j \in 1..(i-1) : s[j] # x) - 1
    ELSE -1

\* findIndex(x => x.id === c) on a SortingState
JsFindIndexId(s, c) ==
    IF \E i \in 1..Len(s) : s[i].id = c
    THEN (CHOOSE i \in 1..Len(s) : s[i].id = c /\ \A j \in 1..(i-1) : s[j].id # c) - 1
    ELSE -1

\* start index of splice: negative counts from the end, clamped to [0, len]
SpliceStart(s, idx) ==
    IF idx < 0 THEN Max2(Len(s) + idx, 0) ELSE Min2(idx, Len(s))

\* s.splice(idx, 1): the array afterwards
SpliceRemove(s, idx) ==
    LET st == SpliceStart(s, idx)
    IN  IF st >= Len(s) THEN s
        ELSE SubSeq(s, 1, st) \o SubSeq(s, st + 2, Len(s))

\* s.splice(idx, 1): the removed elements (empty when idx is past the end)
SpliceRemoved(s, idx) ==
    LET st == SpliceStart(s, idx)
    IN  IF st >= Len(s) THEN << >> ELSE <<s[st + 1]>>

\* s.splice(idx, 0, x): the array afterwards
SpliceInsert(s, idx, x) ==
    LET st == SpliceStart(s, idx)
    IN  SubSeq(s, 1, st) \o <<x>> \o SubSeq(s, st + 1, Len(s))

(***************************************************************************)
(* State.                                                                  *)
(***************************************************************************)
VARIABLES
    sorting,          \* SortSpec: sequence of [id, desc]
    columnOrder,      \* ColumnOrder
    dragColumnRef,    \* source column of the active drag, or Null
    dragSourceRef,    \* "header", "chip" or Null
    didDragRef,       \* one-shot flag read by the header click handler
    dragOverId,       \* header highlighted as drop target, or Null
    sortZoneActive,   \* sort zone highlighted
    sortChipDragOver, \* chip highlighted as drop target, or Null
    phase,            \* browser drag session: "idle", "dragging", "dropped"
    dragEl,           \* element the browser is dragging
    hover,            \* element under the pointer during the drag
    accept,           \* the last dragover handler called preventDefault
    columnFilters,    \* FilterSpec: sequence of [id, operator, value]
    cfOperator,       \* per ColumnFilter: operator selected in the menu
    cfText,           \* per ColumnFilter: committed text
    cfShowOperator,   \* per ColumnFilter: operator menu open
    diValue,          \* per DebouncedInput: text shown in the input
    diTimer,          \* per DebouncedInput: the pending setTimeout, if any
    filterCall,       \* the last evaluation of operatorFilterFn on one cell
    groupCall,        \* the last evaluation of buildGroupTree
    exportCall,       \* the last call of an export function
    fieldCall,        \* the last evaluation of escapeField
    pagerCall,        \* the last rendering of the pager's page buttons
    dbValue,          \* DebouncedInput value state, per input
    dbText,           \* text state of the input's ColumnFilter
    timerRef,         \* timerRef.current of each input: a timer id, or NoTimerId
    timers,           \* the browser's pending timers: [id, input, val, remaining]
    nextTimerId,      \* the id the next setTimeout returns
    sinceKey,         \* time since the input's last keystroke, up to debounce
    commits,          \* the values onChange was called with, per input
    bursts,           \* per input, the number of keystrokes that did not arrive
                      \* within the delay of a previous one
    table,            \* the rows the collaborator stores, in its order
    error,            \* ClientList error state: a message, or Null
    loading,          \* ClientList loading state
    fetch,            \* fetchClients: [pc, allData, from]
    form,             \* ClientList form: [editingId, name, email, phone, company]
    pendingWrites,    \* collaborator writes in flight, with what their handler
                      \* closed over
    fetchDisturbed,   \* a request of the fetch failed or the table changed
                      \* while the fetch was running
    writeCount,       \* the number of collaborator writes requested so far
    clients,          \* the `clients` prop: the row list
    nestedView,       \* nested view switched on
    collapsedGroups,  \* set of the keys of the collapsed groups
    globalFilter,     \* text of the search box
    rowSelection,     \* Row.id of the selected rows
    pagination,       \* [pageIndex, pageSize], kept by the table
    editingRowId,     \* id of the row in edit mode, or Null
    editValues,       \* the draft: field name -> string; empty when no edit
    editValuesRef,    \* the ref the handlers read the draft from
    pendingSaves,     \* onSave calls awaited by a Save click, not yet settled
    ev                \* the event dispatched last

gridVars == <<sorting, columnOrder, dragColumnRef, dragSourceRef, didDragRef,
              dragOverId, sortZoneActive, sortChipDragOver,
              phase, dragEl, hover, accept>>

filterVars == <<columnFilters, cfOperator, cfText, cfShowOperator, diValue, diTimer>>

fnVars == <<filterCall, groupCall>>

ioVars == <<exportCall, fieldCall, pagerCall>>

timerVars == <<dbValue, dbText, timerRef, timers, nextTimerId, sinceKey, commits, bursts>>

listVars == <<table, error, loading, fetch, form, pendingWrites, fetchDisturbed,
             writeCount>>

viewVars == <<nestedView, collapsedGroups, globalFilter, rowSelection, pagination>>

editVars == <<editingRowId, editValues, editValuesRef, pendingSaves>>

vars == <<gridVars, filterVars, fnVars, ioVars, timerVars, listVars, clients, viewVars, editVars, ev>>

\* what the handlers of the header row and the sort zone leave alone
outsideGrid == <<filterVars, fnVars, clients, viewVars, editVars, ioVars, timerVars, listVars>>

\* what the handlers of a ColumnFilter leave alone
outsideFilter == <<gridVars, fnVars, clients, viewVars, editVars, ioVars, timerVars, listVars>>

\* what an evaluation of the filter function leaves alone
outsideFn == <<gridVars, filterVars, clients, viewVars, editVars, ioVars, timerVars, listVars>>

\* what the handlers of the toolbar, the group rows, the row checkboxes and
\* the pager leave alone
outsideView == <<gridVars, filterVars, fnVars, clients, editVars, ioVars, timerVars, listVars>>

\* what the buttons and inputs of the actions column and the edited cells
\* leave alone
outsideEdit == <<gridVars, filterVars, fnVars, viewVars, ioVars, timerVars, listVars>>

\* what a keystroke, a timer and the passing of time leave alone
outsideTimers == <<gridVars, filterVars, fnVars, ioVars, clients, viewVars, editVars, listVars>>

\* what the handlers of ClientList leave alone
outsideList == <<gridVars, filterVars, fnVars, ioVars, timerVars, viewVars, editVars>>

\* what a call of an export function leaves alone
outsideIo == <<gridVars, filterVars, fnVars, clients, viewVars, editVars, timerVars, listVars>>

\* FilterOperator
FILTER_OPERATORS == {"contains", "startsWith", "endsWith", "equals", "notEquals"}

\* debounce delay of DebouncedInput, in ms
debounce == 200

\* texts are sequences of characters; the empty text is << >>
EmptyText == << >>

RECURSIVE TextsOfLen(_)
TextsOfLen(n) == IF n = 0 THEN {EmptyText} ELSE {Append(x, "a") : x \in TextsOfLen(n - 1)}

\* the texts the user types into a filter input
Texts == UNION {TextsOfLen(n) : n \in 0..MaxTextLen}

NoTimer == [pending |-> FALSE, val |-> EmptyText, op |-> Null]


NoEv == [type |-> "none", col |-> Null, arg |-> Null]

\* a cell value as row.getValue returns it: a string, null or undefined
UndefinedCell == [kind |-> "undefined", str |-> EmptyText]
NullCell == [kind |-> "null", str |-> EmptyText]
StrCell(t) == [kind |-> "string", str |-> t]

\* a column's filter value: undefined, or {operator, value}; the operator is
\* kept apart because a call record holds the result under every operator
NoFilterValue == [defined |-> FALSE, value |-> EmptyText]

\* a call record: the arguments, the text the cell shows, and, once the
\* function has been evaluated (done), its result under each operator
NoResults == [op \in FILTER_OPERATORS |-> TRUE]

NoCall == [col |-> Null, cell |-> UndefinedCell, shown |-> EmptyText,
           fv |-> NoFilterValue, results |-> NoResults, done |-> FALSE]

SortIds(s) == {s[i].id : i \in 1..Len(s)}

\* a row of the table: the Client fields the grid has columns for; the text
\* fields hold a string or null, created_at holds the instant its raw ISO
\* string denotes
Client(id, name, email, phone, company, createdAt) ==
    [id |-> id, name |-> name, email |-> email, phone |-> phone,
     company |-> company, created_at |-> createdAt]

\* editingRowId when no row is in edit mode (null; row ids are positive)
NoRowId == 0

\* an instant (UTC)
Instant(y, m, d, h) == [y |-> y, m |-> m, d |-> d, h |-> h]

\* the row list the grid is mounted with: one company value contains the
\* characters of a key separator, the emails are partly null, and there are
\* more rows than the smallest page holds
ViewClients ==
    [i \in 1..NumViewRows |->
        Client(i, StrCell(<<"a">>),
               IF i % 2 = 0 THEN NullCell ELSE StrCell(<<"b">>),
               NullCell,
               IF i = 1 THEN StrCell(<<"x", "|", "n", "a", "m", "e", "=", "a">>)
               ELSE StrCell(<<"x">>),
               Instant(2024, 3, 4, 10))]

\* initialState.pagination.pageSize, and the options of the page size select
DefaultPageSize == 50

PageSizes == {20, 50, 100, 200}

\* a call record of buildGroupTree: the arguments and, once evaluated (done),
\* the tree and its leaves in tree order
NoGroupCall == [rows |-> << >>, sortCols |-> << >>, tree |-> << >>,
                leaves |-> << >>, done |-> FALSE]

\* what an export function has produced before it is called
NoOutput == [format |-> "none"]

\* a call record of an export function: the format, the arguments, the time
\* zone of the browser (hours east of UTC), whether window.open delivers a
\* window and, once the function has run (done), what it produced
NoExportCall ==
    [format |-> "none", data |-> << >>, columnOrder |-> << >>,
     columnVisibility |-> << >>, rowLimit |-> 0, excludeHeaders |-> FALSE,
     tz |-> 0, popup |-> TRUE, out |-> NoOutput, done |-> FALSE]

\* a call record of escapeField: the field and, once evaluated, the result
NoFieldCall == [field |-> << >>, result |-> << >>, done |-> FALSE]

\* the pager before its page buttons are rendered
NoPagerCall == [pageCount |-> 0, pageIndex |-> 0, buttons |-> << >>, done |-> FALSE]

\* the collaborator's table: the stored rows in the order it delivers them,
\* and the id it gives to the next inserted row
EmptyTable == [rows |-> << >>, nextId |-> 1]

\* fetchClients before its first request and after its last
NoFetch == [pc |-> "done", allData |-> << >>, from |-> 0]

\* the form of ClientList after resetForm
EmptyForm ==
    [editingId |-> NoRowId, name |-> EmptyText, email |-> EmptyText,
     phone |-> EmptyText, company |-> EmptyText]

\* ClientList with nothing stored, nothing fetched and nothing in flight
InitListIdle ==
    /\ table = EmptyTable
    /\ error = Null
    /\ loading = FALSE
    /\ fetch = NoFetch
    /\ form = EmptyForm
    /\ pendingWrites = << >>
    /\ fetchDisturbed = FALSE
    /\ writeCount = 0

\* no export function and no escapeField has been called, and ClientList is
\* idle
InitIo ==
    /\ exportCall = NoExportCall
    /\ fieldCall = NoFieldCall
    /\ pagerCall = NoPagerCall
    /\ InitListIdle

\* the filter inputs of the timer model
DebounceInputs == {"name", "email"}

\* timerRef.current before the first keystroke (undefined; timer ids are
\* positive)
NoTimerId == 0

\* the filter inputs as mounted: empty, no timer pending, no keystroke yet
InitTimers ==
    /\ dbValue = [c \in DebounceInputs |-> EmptyText]
    /\ dbText = [c \in DebounceInputs |-> EmptyText]
    /\ timerRef = [c \in DebounceInputs |-> NoTimerId]
    /\ timers = {}
    /\ nextTimerId = 1
    /\ sinceKey = [c \in DebounceInputs |-> debounce]
    /\ commits = [c \in DebounceInputs |-> << >>]
    /\ bursts = [c \in DebounceInputs |-> 0]

\* the state after the grid has mounted, but for the row list and the call
\* records
InitGrid ==
    /\ sorting = << >>
    /\ columnOrder = InitialColumnOrder
    /\ dragColumnRef = Null
    /\ dragSourceRef = Null
    /\ didDragRef = FALSE
    /\ dragOverId = Null
    /\ sortZoneActive = FALSE
    /\ sortChipDragOver = Null
    /\ phase = "idle"
    /\ dragEl = NoElem
    /\ hover = NoElem
    /\ accept = FALSE
    /\ columnFilters = << >>
    /\ cfOperator = [c \in FilterCols |-> "contains"]
    /\ cfText = [c \in FilterCols |-> EmptyText]
    /\ cfShowOperator = [c \in FilterCols |-> FALSE]
    /\ diValue = [c \in FilterCols |-> EmptyText]
    /\ diTimer = [c \in FilterCols |-> NoTimer]
    /\ nestedView = FALSE
    /\ collapsedGroups = {}
    /\ globalFilter = EmptyText
    /\ rowSelection = {}
    /\ pagination = [pageIndex |-> 0, pageSize |-> DefaultPageSize]
    /\ editingRowId = NoRowId
    /\ editValues = << >>
    /\ editValuesRef = << >>
    /\ pendingSaves = << >>
    /\ InitTimers
    /\ ev = NoEv

\* the grid as ClientList mounts it first: the row list is still empty
Init ==
    /\ InitGrid
    /\ clients = << >>
    /\ filterCall = NoCall
    /\ groupCall = NoGroupCall
    /\ InitIo

\* the grid with the fetched rows
InitView ==
    /\ InitGrid
    /\ clients = ViewClients
    /\ filterCall = NoCall
    /\ groupCall = NoGroupCall
    /\ InitIo

(***************************************************************************)
(* Sort engine state transitions (pure parts of the handlers).             *)
(***************************************************************************)
SortEntry(c, d) == [id |-> c, desc |-> d]

\* column.getIsSorted(): "false", "asc" or "desc" (first entry of the column)
getIsSorted(s, c) ==
    IF c \notin SortIds(s) THEN "false"
    ELSE IF s[JsFindIndexId(s, c) + 1].desc THEN "desc" ELSE "asc"

\* prev.map(s => s.id === c ? {...s, desc: d} : s)
SetDesc(s, c, d) ==
    [i \in 1..Len(s) |-> IF s[i].id = c THEN SortEntry(s[i].id, d) ELSE s[i]]

\* prev.filter(s => s.id !== c)
FilterOutId(s, c) == SelectSeq(s, LAMBDA e : e.id # c)

\* variant: the click on an ascending column removes it at once
HeaderClickSorting_SkipDesc(s, c) ==
    IF getIsSorted(s, c) = "false" THEN Append(s, SortEntry(c, FALSE))
    ELSE FilterOutId(s, c)

\* header onClick after its two guards: unsorted -> asc -> desc -> removed
HeaderClickSorting(s, c) ==
    LET current == getIsSorted(s, c)
    IN  IF current = "false" THEN Append(s, SortEntry(c, FALSE))
        ELSE IF current = "asc" THEN SetDesc(s, c, TRUE)
        ELSE FilterOutId(s, c)

\* variant: the `already` test is missing
SortZoneDropSorting_NoAlready(s, colId, src) ==
    IF src = "header" THEN Append(s, SortEntry(colId, FALSE)) ELSE s

\* variant: an already sorted column is reset to ascending
SortZoneDropSorting_Reset(s, colId, src) ==
    IF src = "header"
    THEN IF colId \notin SortIds(s) THEN Append(s, SortEntry(colId, FALSE))
         ELSE SetDesc(s, colId, FALSE)
    ELSE s

\* sort zone onDrop: only a header source adds, and only when not yet sorted
SortZoneDropSorting(s, colId, src) ==
    IF src = "header" /\ colId \notin SortIds(s)
    THEN Append(s, SortEntry(colId, FALSE))
    ELSE s

\* variant: the target index is looked up after the removal
ChipDropSorting_IndexAfterRemoval(prev, from, to) ==
    LET fromIdx == JsFindIndexId(prev, from)
        item    == SpliceRemoved(prev, fromIdx)
        next    == SpliceRemove(prev, fromIdx)
        toIdx   == JsFindIndexId(next, to)
    IN  IF item = << >> THEN next
        ELSE SpliceInsert(next, toIdx, item[1])

\* sort chip onDrop: move the entry of `from` to the index `to` had
ChipDropSorting(prev, from, to) ==
    LET fromIdx == JsFindIndexId(prev, from)
        toIdx   == JsFindIndexId(prev, to)
        item    == SpliceRemoved(prev, fromIdx)
        next    == SpliceRemove(prev, fromIdx)
    IN  IF item = << >> THEN next
        ELSE SpliceInsert(next, toIdx, item[1])

\* chip direction button: prev.map(x => x.id === c ? {...x, desc: !x.desc} : x)
ChipToggleSorting(s, c) ==
    [i \in 1..Len(s) |-> IF s[i].id = c THEN SortEntry(s[i].id, ~s[i].desc) ELSE s[i]]

\* variant: the dragged column is inserted without being removed first
HeaderDropOrder_NoRemove(prev, from, to) ==
    SpliceInsert(prev, JsIndexOf(prev, to), from)

\* header onDrop: remove `from`, then insert it where `to` is now
HeaderDropOrder(prev, from, to) ==
    LET fromIdx  == JsIndexOf(prev, from)
        next     == SpliceRemove(prev, fromIdx)
        newToIdx == JsIndexOf(next, to)
    IN  SpliceInsert(next, newToIdx, from)

\* draggable={header.column.id !== 'actions' && header.column.id !== 'select'}
HeaderDraggable(c) == c # "actions" /\ c # "select"

\* variant: the test for `actions` and `select` is missing
HeaderAcceptsDrop_AnyHeader(from, h) == from # Null

\* header onDragOver goes on to preventDefault (the header is a drop target)
\* unless no drag is recorded or the header is `actions` or `select`
HeaderAcceptsDrop(from, h) == ~(from = Null \/ h = "actions" \/ h = "select")

\* variant: hovering never sets the flag
DragOverFlag_Never(flag, from, h) == flag

\* header onDragOver: didDragRef after hovering header h with source `from`
DragOverFlag(flag, from, h) == IF from # h THEN TRUE ELSE flag

(***************************************************************************)
(* Drop-target highlights.                                                 *)
(***************************************************************************)
Highlights ==
    [over |-> dragOverId, zone |-> sortZoneActive, chip |-> sortChipDragOver]

\* the onDragLeave handler of the element the pointer leaves; a chip's
\* dragleave bubbles to the sort zone that contains it
LeaveHL(el, hl) ==
    IF el.kind = "header"
    THEN [hl EXCEPT !.over = IF hl.over = el.id THEN Null ELSE hl.over]
    ELSE IF el.kind = "chip"
    THEN [hl EXCEPT !.chip = IF hl.chip = el.id THEN Null ELSE hl.chip,
                    !.zone = FALSE]
    ELSE IF el.kind = "zone"
    THEN [hl EXCEPT !.zone = FALSE]
    ELSE hl

SetHL(hl) ==
    /\ dragOverId' = hl.over
    /\ sortZoneActive' = hl.zone
    /\ sortChipDragOver' = hl.chip

(***************************************************************************)
(* Drag gestures.                                                          *)
(***************************************************************************)
\* header onDragStart
HeaderDragStart(c) ==
    /\ UNCHANGED outsideGrid
    /\ phase = "idle"
    /\ HeaderDraggable(c)
    /\ dragColumnRef' = c
    /\ dragSourceRef' = "header"
    /\ didDragRef' = FALSE
    /\ phase' = "dragging"
    /\ dragEl' = [kind |-> "header", id |-> c]
    /\ hover' = NoElem
    /\ accept' = FALSE
    /\ ev' = [type |-> "dragstart", col |-> c, arg |-> "header"]
    /\ UNCHANGED <<sorting, columnOrder, dragOverId, sortZoneActive, sortChipDragOver>>

\* sort chip onDragStart
ChipDragStart(c) ==
    /\ UNCHANGED outsideGrid
    /\ phase = "idle"
    /\ c \in SortIds(sorting)
    /\ dragColumnRef' = c
    /\ dragSourceRef' = "chip"
    /\ phase' = "dragging"
    /\ dragEl' = [kind |-> "chip", id |-> c]
    /\ hover' = NoElem
    /\ accept' = FALSE
    /\ ev' = [type |-> "dragstart", col |-> c, arg |-> "chip"]
    /\ UNCHANGED <<sorting, columnOrder, didDragRef, dragOverId, sortZoneActive,
                   sortChipDragOver>>

\* header onDragOver, after the dragleave of the element left
DragOverHeader(h) ==
    /\ UNCHANGED outsideGrid
    /\ phase = "dragging"
    /\ hover # [kind |-> "header", id |-> h]
    /\ hover' = [kind |-> "header", id |-> h]
    /\ LET hl == LeaveHL(hover, Highlights)
       IN  IF ~HeaderAcceptsDrop(dragColumnRef, h)
           THEN /\ accept' = FALSE
                /\ SetHL(hl)
                /\ UNCHANGED didDragRef
           ELSE /\ accept' = TRUE
                /\ didDragRef' = DragOverFlag(didDragRef, dragColumnRef, h)
                /\ IF dragColumnRef # h
                   THEN SetHL([hl EXCEPT !.over = h])
                   ELSE SetHL(hl)
    /\ ev' = [type |-> "dragover", col |-> h, arg |-> "header"]
    /\ UNCHANGED <<sorting, columnOrder, dragColumnRef, dragSourceRef, phase, dragEl>>

\* sort zone onDragOver (pointer over the zone, outside any chip)
DragOverZone ==
    /\ UNCHANGED outsideGrid
    /\ phase = "dragging"
    /\ hover # [kind |-> "zone", id |-> Null]
    /\ hover' = [kind |-> "zone", id |-> Null]
    /\ LET hl == LeaveHL(hover, Highlights)
       IN  IF dragSourceRef = "header" \/ dragSourceRef = "chip"
           THEN /\ accept' = TRUE
                /\ SetHL([hl EXCEPT !.zone = TRUE])
           ELSE /\ accept' = FALSE
                /\ SetHL(hl)
    /\ ev' = [type |-> "dragover", col |-> Null, arg |-> "zone"]
    /\ UNCHANGED <<sorting, columnOrder, dragColumnRef, dragSourceRef, didDragRef,
                   phase, dragEl>>

\* sort chip onDragOver; for a header source the chip does nothing and the
\* event bubbles to the sort zone's onDragOver
DragOverChip(k) ==
    /\ UNCHANGED outsideGrid
    /\ phase = "dragging"
    /\ k \in SortIds(sorting)
    /\ hover # [kind |-> "chip", id |-> k]
    /\ hover' = [kind |-> "chip", id |-> k]
    /\ LET hl == LeaveHL(hover, Highlights)
       IN  IF dragSourceRef = "chip"
           THEN /\ accept' = TRUE
                /\ SetHL([hl EXCEPT !.chip = k])
           ELSE IF dragSourceRef = "header"
           THEN /\ accept' = TRUE
                /\ SetHL([hl EXCEPT !.zone = TRUE])
           ELSE /\ accept' = FALSE
                /\ SetHL(hl)
    /\ ev' = [type |-> "dragover", col |-> k, arg |-> "chip"]
    /\ UNCHANGED <<sorting, columnOrder, dragColumnRef, dragSourceRef, didDragRef,
                   phase, dragEl>>

\* the pointer moves to a place that is no drop target
DragOverElsewhere ==
    /\ UNCHANGED outsideGrid
    /\ phase = "dragging"
    /\ hover # NoElem
    /\ hover' = NoElem
    /\ accept' = FALSE
    /\ SetHL(LeaveHL(hover, Highlights))
    /\ ev' = [type |-> "dragover", col |-> Null, arg |-> "none"]
    /\ UNCHANGED <<sorting, columnOrder, dragColumnRef, dragSourceRef, didDragRef,
                   phase, dragEl>>

\* header onDrop
DropOnHeader(to) ==
    /\ UNCHANGED outsideGrid
    /\ phase = "dragging"
    /\ accept
    /\ hover = [kind |-> "header", id |-> to]
    /\ dragOverId' = Null
    /\ LET from == dragColumnRef
       IN  IF from # Null /\ from # to /\ to # "actions" /\ to # "select"
           THEN columnOrder' = HeaderDropOrder(columnOrder, from, to)
           ELSE UNCHANGED columnOrder
    /\ dragColumnRef' = Null
    /\ phase' = "dropped"
    /\ ev' = [type |-> "drop", col |-> to, arg |-> "header"]
    /\ UNCHANGED <<sorting, dragSourceRef, didDragRef, sortZoneActive,
                   sortChipDragOver, dragEl, hover, accept>>

\* sort chip onDrop (stops propagation: the sort zone's onDrop does not run)
DropOnChip(k) ==
    /\ UNCHANGED outsideGrid
    /\ phase = "dragging"
    /\ accept
    /\ hover = [kind |-> "chip", id |-> k]
    /\ sortZoneActive' = FALSE
    /\ sortChipDragOver' = Null
    /\ LET from == dragColumnRef
       IN  IF from # Null /\ from # k /\ dragSourceRef = "chip"
           THEN sorting' = ChipDropSorting(sorting, from, k)
           ELSE UNCHANGED sorting
    /\ dragColumnRef' = Null
    /\ dragSourceRef' = Null
    /\ phase' = "dropped"
    /\ ev' = [type |-> "drop", col |-> k, arg |-> "chip"]
    /\ UNCHANGED <<columnOrder, didDragRef, dragOverId, dragEl, hover, accept>>

\* sort zone onDrop
DropOnZone ==
    /\ UNCHANGED outsideGrid
    /\ phase = "dragging"
    /\ accept
    /\ hover = [kind |-> "zone", id |-> Null]
    /\ sortZoneActive' = FALSE
    /\ LET colId == dragColumnRef
       IN  IF colId = Null \/ colId = "select" \/ colId = "actions"
           THEN UNCHANGED <<sorting, dragColumnRef, dragSourceRef, didDragRef>>
           ELSE /\ sorting' = SortZoneDropSorting(sorting, colId, dragSourceRef)
                /\ dragColumnRef' = Null
                /\ dragSourceRef' = Null
                /\ didDragRef' = TRUE
    /\ phase' = "dropped"
    /\ ev' = [type |-> "drop", col |-> Null, arg |-> "zone"]
    /\ UNCHANGED <<columnOrder, dragOverId, sortChipDragOver, dragEl, hover, accept>>

\* onDragEnd of the dragged element: the header's or the chip's
SourceDragEnd(hl) ==
    IF dragEl.kind = "header"
    THEN /\ SetHL([hl EXCEPT !.over = Null])
         /\ dragColumnRef' = Null
         /\ UNCHANGED dragSourceRef
    ELSE /\ SetHL([hl EXCEPT !.chip = Null])
         /\ dragSourceRef' = Null
         /\ UNCHANGED dragColumnRef

\* dragend after a drop
DragEndAfterDrop ==
    /\ UNCHANGED outsideGrid
    /\ phase = "dropped"
    /\ SourceDragEnd(Highlights)
    /\ phase' = "idle"
    /\ dragEl' = NoElem
    /\ hover' = NoElem
    /\ accept' = FALSE
    /\ ev' = [type |-> "dragend", col |-> dragEl.id, arg |-> "dropped"]
    /\ UNCHANGED <<sorting, columnOrder, didDragRef>>

\* the drag ends without a drop (Escape, or released where nothing accepts
\* it): dragleave on the element under the pointer, then dragend
DragCancel ==
    /\ UNCHANGED outsideGrid
    /\ phase = "dragging"
    /\ SourceDragEnd(LeaveHL(hover, Highlights))
    /\ phase' = "idle"
    /\ dragEl' = NoElem
    /\ hover' = NoElem
    /\ accept' = FALSE
    /\ ev' = [type |-> "dragend", col |-> dragEl.id, arg |-> "cancelled"]
    /\ UNCHANGED <<sorting, columnOrder, didDragRef>>

(***************************************************************************)
(* Clicks.                                                                 *)
(***************************************************************************)
\* header content onClick
HeaderClick(h) ==
    /\ UNCHANGED outsideGrid
    /\ phase = "idle"
    /\ IF didDragRef
       THEN /\ didDragRef' = FALSE
            /\ UNCHANGED sorting
            /\ ev' = [type |-> "click", col |-> h, arg |-> "suppressed"]
       ELSE IF ~getCanSort(h)
       THEN /\ UNCHANGED <<sorting, didDragRef>>
            /\ ev' = [type |-> "click", col |-> h, arg |-> "unsortable"]
       ELSE /\ sorting' = HeaderClickSorting(sorting, h)
            /\ UNCHANGED didDragRef
            /\ ev' = [type |-> "click", col |-> h, arg |-> getIsSorted(sorting, h)]
    /\ UNCHANGED <<columnOrder, dragColumnRef, dragSourceRef, dragOverId,
                   sortZoneActive, sortChipDragOver, phase, dragEl, hover, accept>>

\* chip direction button onClick
ChipToggleDir(c) ==
    /\ UNCHANGED outsideGrid
    /\ phase = "idle"
    /\ c \in SortIds(sorting)
    /\ sorting' = ChipToggleSorting(sorting, c)
    /\ ev' = [type |-> "chipdir", col |-> c, arg |-> Null]
    /\ UNCHANGED <<columnOrder, dragColumnRef, dragSourceRef, didDragRef, dragOverId,
                   sortZoneActive, sortChipDragOver, phase, dragEl, hover, accept>>

\* chip remove button onClick
ChipRemove(c) ==
    /\ UNCHANGED outsideGrid
    /\ phase = "idle"
    /\ c \in SortIds(sorting)
    /\ sorting' = FilterOutId(sorting, c)
    /\ ev' = [type |-> "chipremove", col |-> c, arg |-> Null]
    /\ UNCHANGED <<columnOrder, dragColumnRef, dragSourceRef, didDragRef, dragOverId,
                   sortZoneActive, sortChipDragOver, phase, dragEl, hover, accept>>

\* 'Clear sort' button, rendered while sorting is non-empty
ClearSort ==
    /\ UNCHANGED outsideGrid
    /\ phase = "idle"
    /\ Len(sorting) > 0
    /\ sorting' = << >>
    /\ ev' = [type |-> "clearsort", col |-> Null, arg |-> Null]
    /\ UNCHANGED <<columnOrder, dragColumnRef, dragSourceRef, didDragRef, dragOverId,
                   sortZoneActive, sortChipDragOver, phase, dragEl, hover, accept>>

\* sort gestures: header clicks, header and chip drags over any target and
\* dropped on the sort zone or on a chip, chip buttons, 'Clear sort'
SortNext ==
    \/ \E c \in Headers : HeaderDragStart(c)
    \/ \E c \in UserCols : ChipDragStart(c)
    \/ \E h \in Headers : DragOverHeader(h)
    \/ \E k \in UserCols : DragOverChip(k)
    \/ DragOverZone
    \/ DragOverElsewhere
    \/ \E k \in UserCols : DropOnChip(k)
    \/ DropOnZone
    \/ DragEndAfterDrop
    \/ DragCancel
    \/ \E h \in Headers : HeaderClick(h)
    \/ \E c \in UserCols : ChipToggleDir(c)
    \/ \E c \in UserCols : ChipRemove(c)
    \/ ClearSort

SpecSort == Init /\ [][SortNext]_vars

\* drag gestures: header and chip sources, dropped on a header, on a chip,
\* on the sort zone or nowhere
OrderNext ==
    \/ \E c \in Headers : HeaderDragStart(c)
    \/ \E c \in UserCols : ChipDragStart(c)
    \/ \E h \in Headers : DragOverHeader(h)
    \/ \E k \in UserCols : DragOverChip(k)
    \/ DragOverZone
    \/ DragOverElsewhere
    \/ \E h \in Headers : DropOnHeader(h)
    \/ \E k \in UserCols : DropOnChip(k)
    \/ DropOnZone
    \/ DragEndAfterDrop
    \/ DragCancel

SpecOrder == Init /\ [][OrderNext]_vars

\* every gesture of the header row and the sort zone
DragNext ==
    \/ \E c \in FewHeaders : HeaderDragStart(c)
    \/ \E c \in FewCols : ChipDragStart(c)
    \/ \E h \in FewHeaders : DragOverHeader(h)
    \/ \E k \in FewCols : DragOverChip(k)
    \/ DragOverZone
    \/ DragOverElsewhere
    \/ \E h \in FewHeaders : DropOnHeader(h)
    \/ \E k \in FewCols : DropOnChip(k)
    \/ DropOnZone
    \/ DragEndAfterDrop
    \/ DragCancel
    \/ \E h \in FewHeaders : HeaderClick(h)
    \/ \E c \in FewCols : ChipToggleDir(c)
    \/ \E c \in FewCols : ChipRemove(c)
    \/ ClearSort

SpecDrag == Init /\ [][DragNext]_vars

(***************************************************************************)
(* Properties of the sort spec, the column order and the drag coordinator. *)
(***************************************************************************)
\* 1-based position of column c in a SortingState, 0 when absent
SortPos(s, c) == JsFindIndexId(s, c) + 1

\* 1-based position of column c in a column order, 0 when absent
ColPos(o, c) == JsIndexOf(o, c) + 1

\* C1: in every reachable state no column identifier occurs more than once
\* in SortSpec (the `sorting` list).
C1_SortIdsUnique ==
    \A i, j \in 1..Len(sorting) : i # j => sorting[i].id # sorting[j].id

\* a sorted column's header was dropped on the sort zone again, with another
\* column sorted after it
C1_Witness ==
    /\ ev = [type |-> "drop", col |-> Null, arg |-> "zone"]
    /\ dragEl.kind = "header"
    /\ Len(sorting) >= 2
    /\ dragEl.id \in SortIds(sorting)
    /\ sorting[Len(sorting)].id # dragEl.id

\* one step of the header-click cycle on column h, stated on SortSpec:
\* absent -> appended ascending; ascending -> descending at the same index;
\* descending -> removed; every other entry keeps direction and order
CycleStep(h) ==
    LET i == SortPos(sorting, h)
    IN  IF i = 0
        THEN sorting' = Append(sorting, [id |-> h, desc |-> FALSE])
        ELSE IF ~sorting[i].desc
        THEN /\ Len(sorting') = Len(sorting)
             /\ sorting'[i] = [id |-> h, desc |-> TRUE]
             /\ \A j \in 1..Len(sorting) : j # i => sorting'[j] = sorting[j]
        ELSE /\ Len(sorting') = Len(sorting) - 1
             /\ \A j \in 1..(i-1) : sorting'[j] = sorting[j]
             /\ \A j \in i..(Len(sorting)-1) : sorting'[j] = sorting[j+1]

\* C2 as stated: every header click on a sortable column performs the next
\* step of the cycle absent -> ascending -> descending -> removed, whatever
\* happened before the first click.
C2_Original ==
    [][\A h \in UserCols : HeaderClick(h) => CycleStep(h)]_vars

\* C2 amended: a header click on a sortable column performs the next step of
\* the cycle absent -> ascending (appended last) -> descending (same index)
\* -> removed, other entries untouched, when the one-shot drag flag is clear,
\* and leaves the flag clear; when the flag is set the click only clears it.
C2_ClickCycle ==
    [][\A h \in UserCols : HeaderClick(h) =>
          IF didDragRef
          THEN sorting' = sorting /\ ~didDragRef'
          ELSE CycleStep(h) /\ ~didDragRef']_vars

\* the third click has removed a descending column from between two others
C2_Witness ==
    \E h \in UserCols :
        /\ ev = [type |-> "click", col |-> h, arg |-> "desc"]
        /\ h \notin SortIds(sorting)
        /\ Len(sorting) = 2

\* C3: dropping a dragged column header on the sort zone appends
\* (column, ascending) as the last SortSpec entry when the column is not in
\* SortSpec, and leaves SortSpec unchanged when it already is.
C3_ZoneDrop ==
    [][(DropOnZone /\ dragEl.kind = "header") =>
          IF dragEl.id \in SortIds(sorting)
          THEN sorting' = sorting
          ELSE sorting' = Append(sorting, [id |-> dragEl.id, desc |-> FALSE])]_vars

\* a header whose column is sorted descending was dropped on the sort zone
C3_Witness ==
    /\ ev = [type |-> "drop", col |-> Null, arg |-> "zone"]
    /\ dragEl.kind = "header"
    /\ getIsSorted(sorting, dragEl.id) = "desc"

\* C4: ColumnOrder is a permutation of the initial column set: every
\* identifier occurs exactly once.
C4_OrderIsPermutation ==
    /\ Len(columnOrder) = Len(InitialColumnOrder)
    /\ \A c \in AllCols : \E i \in 1..Len(columnOrder) : columnOrder[i] = c
    /\ \A i, j \in 1..Len(columnOrder) : i # j => columnOrder[i] # columnOrder[j]

\* a header drop has changed the column order
C4_Witness ==
    /\ ev.type = "drop" /\ ev.arg = "header"
    /\ columnOrder # InitialColumnOrder

\* C5: `select` is the first and `actions` the last element of ColumnOrder,
\* and neither is ever a drag source or an accepted drop target.
C5_SyntheticFixed ==
    /\ columnOrder[1] = "select"
    /\ columnOrder[Len(columnOrder)] = "actions"
    /\ dragEl.id \notin Synthetic
    /\ dragColumnRef \notin Synthetic
    /\ ~(accept /\ hover.kind = "header" /\ hover.id \in Synthetic)

\* a drag hovers the `actions` header after the column order has changed
C5_Witness ==
    /\ phase = "dragging"
    /\ hover = [kind |-> "header", id |-> "actions"]
    /\ columnOrder # InitialColumnOrder

\* C6 as stated: dropping header C on a different non-synthetic header at
\* index j leaves C at index j, all other columns keeping their relative
\* order, for leftward and rightward drags.
C6_ReinsertAtTarget ==
    [][\A to \in UserCols :
          (DropOnHeader(to) /\ dragEl.kind = "header" /\ dragEl.id # to) =>
             /\ columnOrder'[ColPos(columnOrder, to)] = dragEl.id
             /\ SelectSeq(columnOrder', LAMBDA c : c # dragEl.id)
                  = SelectSeq(columnOrder, LAMBDA c : c # dragEl.id)]_vars

\* C7: dropping sort chip A on a different chip B moves A's entry to the
\* index B had; directions, the relative order of the other entries and the
\* set of sorted columns are unchanged.
C7_ChipReorder ==
    [][\A b \in UserCols :
          (DropOnChip(b) /\ dragEl.kind = "chip" /\ dragEl.id # b) =>
             /\ Len(sorting') = Len(sorting)
             /\ sorting'[SortPos(sorting, b)] = sorting[SortPos(sorting, dragEl.id)]
             /\ FilterOutId(sorting', dragEl.id) = FilterOutId(sorting, dragEl.id)
             /\ SortIds(sorting') = SortIds(sorting)]_vars

\* a descending chip was dragged from the front onto the last of three chips
C7_Witness ==
    /\ ev.type = "drop" /\ ev.arg = "chip"
    /\ dragEl.kind = "chip"
    /\ Len(sorting) = 3
    /\ sorting[3] = [id |-> dragEl.id, desc |-> TRUE]
    /\ ev.col = sorting[2].id

\* C8: a header drag whose drop changes ColumnOrder or SortSpec leaves the
\* one-shot flag set; the flag then stays set until the next header click
\* (or the start of another header drag); that click leaves SortSpec alone
\* and clears the flag, and a click with the flag clear sorts.
C8_ClickAfterDrop ==
    [][/\ ( /\ phase = "dragging" /\ phase' = "dropped" /\ dragEl.kind = "header"
            /\ (sorting' # sorting \/ columnOrder' # columnOrder) ) => didDragRef'
       /\ (didDragRef /\ ~didDragRef') =>
             \/ ev'.type = "click"
             \/ ev'.type = "dragstart" /\ ev'.arg = "header"
       /\ \A h \in Headers :
            HeaderClick(h) =>
               IF didDragRef
               THEN sorting' = sorting /\ ~didDragRef'
               ELSE getCanSort(h) => sorting' # sorting]_vars

\* the click after a reordering header drop was ignored
C8_Witness ==
    /\ ev.type = "click" /\ ev.arg = "suppressed"
    /\ columnOrder # InitialColumnOrder
    /\ sorting = << >>
    /\ ~didDragRef

\* C9 as stated: a drag that ends without a drop leaves SortSpec and
\* ColumnOrder as they were and leaves neither a source column id
\* (dragColumnRef) nor a source kind (dragSourceRef) recorded.
C9_CancelReturnsToIdle ==
    [][DragCancel =>
          /\ sorting' = sorting
          /\ columnOrder' = columnOrder
          /\ dragColumnRef' = Null
          /\ dragSourceRef' = Null]_vars

\* C36 as stated: a drag whose source is a sort chip never changes
\* ColumnOrder, wherever it is dropped; ColumnOrder changes only in a drag
\* whose source is a header.
C36_ChipDragKeepsOrder ==
    [][/\ dragEl.kind = "chip" => columnOrder' = columnOrder
       /\ columnOrder' # columnOrder => dragEl.kind = "header"]_vars

\* C37 as stated: a click on a sortable header is ignored (SortSpec unchanged)
\* only when the event before it is the end of a drag that was dropped on a
\* target; after a drag that was cancelled or released outside any target the
\* click is not ignored.
C37_IgnoredOnlyAfterDrop ==
    [][(ev'.type = "click" /\ ev'.arg = "suppressed" /\ getCanSort(ev'.col))
          => (ev.type = "dragend" /\ ev.arg = "dropped")]_vars

(***************************************************************************)
(* Per-column filter widgets (ColumnFilter with its DebouncedInput).       *)
(***************************************************************************)
FilterIds(cf) == {cf[i].id : i \in 1..Len(cf)}

\* column.getFilterValue(): the column's entry; only read when present
FilterEntry(cf, c) == cf[CHOOSE i \in 1..Len(cf) : cf[i].id = c]

\* column.setFilterValue(undefined): the column's entry is dropped
RemoveFilter(cf, c) == SelectSeq(cf, LAMBDA e : e.id # c)

\* column.setFilterValue({operator, value}): replaced in place, else appended
SetFilter(cf, c, op, val) ==
    LET new == [id |-> c, operator |-> op, value |-> val]
    IN  IF c \in FilterIds(cf)
        THEN [i \in 1..Len(cf) |-> IF cf[i].id = c THEN new ELSE cf[i]]
        ELSE Append(cf, new)

\* variant: the empty text is stored like any other
Apply_StoreEmpty(cf, c, op, val) == SetFilter(cf, c, op, val)

\* ColumnFilter apply(op, val)
Apply(cf, c, op, val) ==
    IF val = EmptyText THEN RemoveFilter(cf, c) ELSE SetFilter(cf, c, op, val)

\* DebouncedInput's effect: the input shows the text prop whenever it changes
EffectValue(c, newText) == IF newText # cfText[c] THEN newText ELSE diValue[c]

\* DebouncedInput handleChange: a keystroke replaces the pending timer; the
\* timer's callback closes over the operator of the current render
FilterType(c, val) ==
    /\ UNCHANGED outsideFilter
    /\ val # diValue[c]
    /\ diValue' = [diValue EXCEPT ![c] = val]
    /\ diTimer' = [diTimer EXCEPT ![c] = [pending |-> TRUE, val |-> val, op |-> cfOperator[c]]]
    /\ ev' = [type |-> "type", col |-> c, arg |-> Null]
    /\ UNCHANGED <<columnFilters, cfOperator, cfText, cfShowOperator>>

\* the timer fires: onChange(val) = setText(val); apply(operator, val)
FilterTimerFire(c) ==
    /\ UNCHANGED outsideFilter
    /\ diTimer[c].pending
    /\ cfText' = [cfText EXCEPT ![c] = diTimer[c].val]
    /\ columnFilters' = Apply(columnFilters, c, diTimer[c].op, diTimer[c].val)
    /\ diValue' = [diValue EXCEPT ![c] = EffectValue(c, diTimer[c].val)]
    /\ diTimer' = [diTimer EXCEPT ![c] = NoTimer]
    /\ ev' = [type |-> "commit", col |-> c,
              arg |-> IF diTimer[c].val = EmptyText THEN "empty" ELSE "text"]
    /\ UNCHANGED <<cfOperator, cfShowOperator>>

\* clear button, rendered while text is non-empty
FilterClear(c) ==
    /\ UNCHANGED outsideFilter
    /\ cfText[c] # EmptyText
    /\ cfText' = [cfText EXCEPT ![c] = EmptyText]
    /\ columnFilters' = Apply(columnFilters, c, cfOperator[c], EmptyText)
    /\ diValue' = [diValue EXCEPT ![c] = EffectValue(c, EmptyText)]
    /\ ev' = [type |-> "clear", col |-> c, arg |-> Null]
    /\ UNCHANGED <<cfOperator, cfShowOperator, diTimer>>

\* operator button: opens or closes the operator menu
FilterToggleMenu(c) ==
    /\ UNCHANGED outsideFilter
    /\ cfShowOperator' = [cfShowOperator EXCEPT ![c] = ~cfShowOperator[c]]
    /\ ev' = [type |-> "menu", col |-> c, arg |-> Null]
    /\ UNCHANGED <<columnFilters, cfOperator, cfText, diValue, diTimer>>

\* operator menu item, rendered while the menu is open
FilterPickOperator(c, op) ==
    /\ UNCHANGED outsideFilter
    /\ cfShowOperator[c]
    /\ cfOperator' = [cfOperator EXCEPT ![c] = op]
    /\ columnFilters' = Apply(columnFilters, c, op, cfText[c])
    /\ cfShowOperator' = [cfShowOperator EXCEPT ![c] = FALSE]
    /\ ev' = [type |-> "operator", col |-> c,
              arg |-> IF cfText[c] = EmptyText THEN "empty" ELSE "text"]
    /\ UNCHANGED <<cfText, diValue, diTimer>>

FilterNext ==
    \/ \E c \in FilterCols, val \in Texts : FilterType(c, val)
    \/ \E c \in FilterCols : FilterTimerFire(c)
    \/ \E c \in FilterCols : FilterClear(c)
    \/ \E c \in FilterCols : FilterToggleMenu(c)
    \/ \E c \in FilterCols, op \in FILTER_OPERATORS : FilterPickOperator(c, op)

SpecFilter == Init /\ [][FilterNext]_vars

\* C10: no FilterSpec entry has empty text; committing an empty text through
\* typing, the clear button or an operator change removes the entry.
C10_NoEmptyFilterText ==
    /\ \A i \in 1..Len(columnFilters) : columnFilters[i].value # EmptyText
    /\ \A c \in FilterCols :
          (ev.col = c /\ ev.type \in {"commit", "clear", "operator"}
             /\ cfText[c] = EmptyText) => c \notin FilterIds(columnFilters)

\* an empty text was committed by the debounce timer after a non-default
\* operator had been chosen, and the column has no entry
C10_Witness ==
    \E c \in FilterCols :
        /\ ev = [type |-> "commit", col |-> c, arg |-> "empty"]
        /\ cfOperator[c] = "equals"
        /\ c \notin FilterIds(columnFilters)

\* C34 as stated: a click on a column filter's clear button leaves the column
\* without FilterSpec entry, and the step that follows the click, unless it
\* is a keystroke in the column's input, does not give it one, even when a
\* debounced commit was pending at the click.
C34_ClearedUntilKeystroke ==
    [][\A c \in FilterCols :
          /\ (ev'.type = "clear" /\ ev'.col = c) => c \notin FilterIds(columnFilters')
          /\ (ev.type = "clear" /\ ev.col = c /\ ~(ev'.type = "type" /\ ev'.col = c))
                => c \notin FilterIds(columnFilters')]_vars

\* C35 as stated: the operator of a column's FilterSpec entry is the operator
\* selected in the column's operator menu, also after the operator was
\* changed while a debounced text commit was pending.
C35_EntryOperatorIsSelected ==
    \A i \in 1..Len(columnFilters) :
        columnFilters[i].id \in FilterCols =>
            columnFilters[i].operator = cfOperator[columnFilters[i].id]

(***************************************************************************)
(* The filter function of the data columns (operatorFilterFn) and the      *)
(* text a cell shows.                                                      *)
(***************************************************************************)
\* String.prototype.toLowerCase on the characters of the model
ToLowerChar(ch) == IF ch = "A" THEN "a" ELSE IF ch = "B" THEN "b" ELSE ch

ToLowerCase(t) == [i \in 1..Len(t) |-> ToLowerChar(t[i])]

\* String.prototype.startsWith / endsWith / includes
JsStartsWith(s, t) == Len(t) <= Len(s) /\ SubSeq(s, 1, Len(t)) = t

JsEndsWith(s, t) == Len(t) <= Len(s) /\ SubSeq(s, Len(s) - Len(t) + 1, Len(s)) = t

JsIncludes(s, t) ==
    \E i \in 0..(Len(s) - Len(t)) : SubSeq(s, i + 1, i + Len(t)) = t

\* String(v ?? ''): null and undefined become the empty string
JsStringOrEmpty(cell) == IF cell.kind = "string" THEN cell.str ELSE EmptyText

\* variant: the filter text is compared as typed
operatorFilterFn_SearchAsTyped(cell, fv, op) ==
    IF ~fv.defined \/ fv.value = EmptyText THEN TRUE
    ELSE LET cellValue == ToLowerCase(JsStringOrEmpty(cell))
             search == fv.value
         IN  CASE op = "contains" -> JsIncludes(cellValue, search)
               [] op = "startsWith" -> JsStartsWith(cellValue, search)
               [] op = "endsWith" -> JsEndsWith(cellValue, search)
               [] op = "equals" -> cellValue = search
               [] op = "notEquals" -> cellValue # search
               [] OTHER -> TRUE

\* variant: the two equality operators are swapped
operatorFilterFn_EqualsSwapped(cell, fv, op) ==
    IF ~fv.defined \/ fv.value = EmptyText THEN TRUE
    ELSE LET cellValue == ToLowerCase(JsStringOrEmpty(cell))
             search == ToLowerCase(fv.value)
         IN  CASE op = "contains" -> JsIncludes(cellValue, search)
               [] op = "startsWith" -> JsStartsWith(cellValue, search)
               [] op = "endsWith" -> JsEndsWith(cellValue, search)
               [] op = "equals" -> cellValue # search
               [] op = "notEquals" -> cellValue # search
               [] OTHER -> TRUE

\* operatorFilterFn(row, columnId, filterValue), on cell = row.getValue(columnId)
\* and filterValue = {operator: op, value: fv.value} (undefined when
\* ~fv.defined)
operatorFilterFn(cell, fv, op) ==
    IF ~fv.defined \/ fv.value = EmptyText THEN TRUE
    ELSE LET cellValue == ToLowerCase(JsStringOrEmpty(cell))
             search == ToLowerCase(fv.value)
         IN  CASE op = "contains" -> JsIncludes(cellValue, search)
               [] op = "startsWith" -> JsStartsWith(cellValue, search)
               [] op = "endsWith" -> JsEndsWith(cellValue, search)
               [] op = "equals" -> cellValue = search
               [] op = "notEquals" -> cellValue # search
               [] OTHER -> TRUE

\* characters of the cell values and filter texts of the text columns
CellChars == {"a", "A", "b"}

RECURSIVE StringsOver(_, _)
StringsOver(chars, n) ==
    IF n = 0 THEN {EmptyText}
    ELSE LET shorter == StringsOver(chars, n - 1)
         IN  shorter \cup {Append(x, ch) : x \in shorter, ch \in chars}

\* values of a text cell: name is a string; email, phone and company may be
\* null; a column without value gives undefined
CellValues ==
    {UndefinedCell, NullCell} \cup {StrCell(t) : t \in StringsOver(CellChars, MaxCellLen)}

FilterValues(chars, n) ==
    {NoFilterValue} \cup {[defined |-> TRUE, value |-> t] : t \in StringsOver(chars, n)}

\* decimal digits and zero-padded numbers, as String(n).padStart(2, '0')
DigitChar(n) == <<"0", "1", "2", "3", "4", "5", "6", "7", "8", "9">>[n + 1]

Pad2(n) == <<DigitChar((n \div 10) % 10), DigitChar(n % 10)>>

Year4(y) == Pad2(y \div 100) \o Pad2(y % 100)

\* instants (UTC) of the created_at values of the model
SampleDates ==
    {[y |-> 2024, m |-> mo, d |-> da, h |-> ho] :
        mo \in {3, 12}, da \in {4, 5}, ho \in {10, 11}}

\* the raw created_at string of a row: an ISO timestamp
IsoString(dt) ==
    Year4(dt.y) \o <<"-">> \o Pad2(dt.m) \o <<"-">> \o Pad2(dt.d) \o <<"T">>
        \o Pad2(dt.h) \o <<":", "0", "0", ":", "0", "0", "Z">>

\* the created_at cell renderer: `${month}/${day}/${year}` from the UTC getters
RenderDate(dt) == Pad2(dt.m) \o <<"/">> \o Pad2(dt.d) \o <<"/">> \o Year4(dt.y)

\* characters the user types into the created_at filter
DateChars == {"0", "3", "/", "-"}

\* the text columns whose cells are filtered in the model
TextCols == {"name", "company"}

\* a text cell displays info.getValue(): null and undefined show nothing
ShownText(cell) == JsStringOrEmpty(cell)

ResultsOf(cell, fv) == [op \in FILTER_OPERATORS |-> operatorFilterFn(cell, fv, op)]

\* the arguments of an evaluation on a row of a text column
TextCall(c, cell, fv) ==
    [col |-> c, cell |-> cell, shown |-> ShownText(cell), fv |-> fv,
     results |-> NoResults, done |-> FALSE]

\* the arguments of an evaluation on created_at: getValue returns the raw
\* string, the cell shows the rendered date
DateCall(dt, fv) ==
    [col |-> "created_at", cell |-> StrCell(IsoString(dt)), shown |-> RenderDate(dt),
     fv |-> fv, results |-> NoResults, done |-> FALSE]

CallInputs ==
    {TextCall(c, cell, fv) :
        c \in TextCols, cell \in CellValues, fv \in FilterValues(CellChars, MaxCellLen)}
    \cup {DateCall(dt, fv) :
        dt \in SampleDates, fv \in FilterValues(DateChars, MaxDateTextLen)}

InitFilterFn ==
    /\ InitGrid
    /\ clients = << >>
    /\ filterCall \in CallInputs
    /\ groupCall = NoGroupCall
    /\ InitIo

\* the table evaluates the column's filterFn on the row
EvalFilterFn ==
    /\ UNCHANGED <<outsideFn, groupCall>>
    /\ ~filterCall.done
    /\ filterCall' = [filterCall EXCEPT !.results = ResultsOf(filterCall.cell, filterCall.fv),
                                        !.done = TRUE]
    /\ ev' = [type |-> "filterFn", col |-> filterCall.col, arg |-> Null]

FilterFnNext == EvalFilterFn

SpecFilterFn == InitFilterFn /\ [][FilterFnNext]_vars

\* what the specification says an operator accepts: the relation between the
\* lower-cased text of the cell and the lower-cased filter text
OperatorHolds(op, cellText, text) ==
    LET s == ToLowerCase(cellText)
        t == ToLowerCase(text)
    IN  CASE op = "contains" -> \E i \in 1..(Len(s) + 1) : \E j \in (i - 1)..Len(s) : SubSeq(s, i, j) = t
          [] op = "startsWith" -> \E j \in 0..Len(s) : SubSeq(s, 1, j) = t
          [] op = "endsWith" -> \E i \in 1..(Len(s) + 1) : SubSeq(s, i, Len(s)) = t
          [] op = "equals" -> s = t
          [] op = "notEquals" -> s # t

\* C11: for a non-empty filter text, contains / startsWith / endsWith accept a
\* cell exactly when the lower-cased string form of the cell includes / begins
\* with / ends with the lower-cased text; a null or undefined cell counts as
\* the empty string.
C11_SubstringOperators ==
    (filterCall.done /\ filterCall.col \in TextCols /\ filterCall.fv.defined
        /\ filterCall.fv.value # EmptyText) =>
        \A op \in {"contains", "startsWith", "endsWith"} :
            filterCall.results[op] =
                OperatorHolds(op,
                              IF filterCall.cell.kind = "string"
                              THEN filterCall.cell.str ELSE EmptyText,
                              filterCall.fv.value)

\* an upper-case filter text matched the end, but not the start, of a cell
\* written in the other case
C11_Witness ==
    /\ filterCall.done
    /\ filterCall.col \in TextCols
    /\ filterCall.cell = StrCell(<<"b", "a">>)
    /\ filterCall.fv = [defined |-> TRUE, value |-> <<"A">>]
    /\ filterCall.results["contains"]
    /\ filterCall.results["endsWith"]
    /\ ~filterCall.results["startsWith"]

\* C12 as stated: for every cell value and every filter text, exactly one of
\* equals and notEquals accepts the row.
C12_Original ==
    (filterCall.done /\ filterCall.col \in TextCols) =>
        filterCall.results["equals"] # filterCall.results["notEquals"]

\* C12 amended: for every cell value and every non-empty filter text exactly
\* one of equals and notEquals accepts the row, equals doing so when the
\* lower-cased cell is the lower-cased text; with an empty or absent filter
\* text both accept.
C12_ExactlyOneIfText ==
    (filterCall.done /\ filterCall.col \in TextCols) =>
        IF filterCall.fv.defined /\ filterCall.fv.value # EmptyText
        THEN /\ filterCall.results["equals"] # filterCall.results["notEquals"]
             /\ filterCall.results["equals"] =
                   OperatorHolds("equals", JsStringOrEmpty(filterCall.cell),
                                 filterCall.fv.value)
        ELSE filterCall.results["equals"] /\ filterCall.results["notEquals"]

\* equals accepted, and notEquals rejected, a cell that differs from the text
\* in case only
C12_Witness ==
    /\ filterCall.done
    /\ filterCall.col \in TextCols
    /\ filterCall.cell = StrCell(<<"A", "b">>)
    /\ filterCall.fv = [defined |-> TRUE, value |-> <<"a", "b">>]
    /\ filterCall.results["equals"]
    /\ ~filterCall.results["notEquals"]

\* C13 as stated: a filter on created_at accepts a row exactly when the text
\* the cell shows (MM/DD/YYYY) satisfies the operator, not the raw value.
C13_DateFilterOnShownText ==
    (filterCall.done /\ filterCall.col = "created_at" /\ filterCall.fv.defined
        /\ filterCall.fv.value # EmptyText) =>
        \A op \in FILTER_OPERATORS :
            filterCall.results[op] =
                OperatorHolds(op, filterCall.shown, filterCall.fv.value)

(***************************************************************************)
(* Rows and the group tree of the nested view (buildGroupTree).            *)
(***************************************************************************)
\* row.getValue(columnId)
getValue(row, colId) ==
    IF colId = "created_at" THEN StrCell(IsoString(row.created_at)) ELSE row[colId]

\* the characters of a column id inside a template string
ColChars(colId) ==
    CASE colId = "name" -> <<"n", "a", "m", "e">>
      [] colId = "email" -> <<"e", "m", "a", "i", "l">>
      [] colId = "phone" -> <<"p", "h", "o", "n", "e">>
      [] colId = "company" -> <<"c", "o", "m", "p", "a", "n", "y">>
      [] colId = "created_at" -> <<"c", "r", "e", "a", "t", "e", "d", "_", "a", "t">>

\* the value a row is grouped by: String(getValue ?? ''), and for created_at
\* the date rendered as MM/DD/YYYY
GroupVal(row, colId) ==
    IF colId = "created_at" THEN RenderDate(row.created_at)
    ELSE JsStringOrEmpty(getValue(row, colId))

\* variant: a key for every row, without `if (!groups.has(val))`
GroupVals_Repeated(rows, colId) ==
    [i \in 1..Len(rows) |-> GroupVal(rows[i], colId)]

\* the keys of the Map `groups`, in insertion order
RECURSIVE GroupVals(_, _)
GroupVals(rows, colId) ==
    IF rows = << >> THEN << >>
    ELSE LET before == GroupVals(SubSeq(rows, 1, Len(rows) - 1), colId)
             val == GroupVal(rows[Len(rows)], colId)
         IN  IF \E i \in 1..Len(before) : before[i] = val
             THEN before ELSE Append(before, val)

\* key of a group node: `${parentKey}|${colId}=${val}`, without the parent part
\* when parentKey is the empty string
GroupKey(parentKey, colId, val) ==
    IF parentKey # EmptyText
    THEN parentKey \o <<"|">> \o ColChars(colId) \o <<"=">> \o val
    ELSE ColChars(colId) \o <<"=">> \o val

\* buildGroupTree(rows, sortCols, depth, parentKey)
RECURSIVE buildGroupTree(_, _, _, _)
buildGroupTree(rows, sortCols, depth, parentKey) ==
    IF depth >= Len(sortCols)
    THEN [i \in 1..Len(rows) |-> [type |-> "row", row |-> rows[i]]]
    ELSE LET colId == sortCols[depth + 1].id
             vals == GroupVals(rows, colId)
         IN  [g \in 1..Len(vals) |->
                LET val == vals[g]
                    groupRows == SelectSeq(rows, LAMBDA r : GroupVal(r, colId) = val)
                    key == GroupKey(parentKey, colId, val)
                IN  [type |-> "group", columnId |-> colId, value |-> val,
                     depth |-> depth, key |-> key, count |-> Len(groupRows),
                     children |-> buildGroupTree(groupRows, sortCols, depth + 1, key)]]

\* the rows at the leaves of a tree, in tree order
RECURSIVE LeafRows(_)
LeafRows(nodes) ==
    IF nodes = << >> THEN << >>
    ELSE LET node == nodes[1]
             rest == LeafRows(SubSeq(nodes, 2, Len(nodes)))
         IN  IF node.type = "group" THEN LeafRows(node.children) \o rest
             ELSE <<node.row>> \o rest

\* code points order the characters of the model
CharOrder ==
    <<"-", "/", "0", "1", "2", "3", "4", "5", "6", "7", "8", "9", ":", "=",
      "A", "B", "T", "Z", "_", "a", "b", "c", "d", "e", "h", "i", "l", "m",
      "n", "o", "p", "r", "t", "x", "y", "|">>

CharRank(ch) == CHOOSE i \in 1..Len(CharOrder) : CharOrder[i] = ch

\* s < t for strings
RECURSIVE StrLess(_, _)
StrLess(s, t) ==
    IF t = << >> THEN FALSE
    ELSE IF s = << >> THEN TRUE
    ELSE IF s[1] # t[1] THEN CharRank(s[1]) < CharRank(t[1])
    ELSE StrLess(Tail(s), Tail(t))

\* the raw value of a row in a column, as a string
RawVal(row, colId) == JsStringOrEmpty(getValue(row, colId))

\* r1 may precede r2 under the sort keys from position k on: the rows are
\* compared on the raw values, key by key
RECURSIVE RawOrdered(_, _, _, _)
RawOrdered(r1, r2, sortCols, k) ==
    IF k > Len(sortCols) THEN TRUE
    ELSE LET a == RawVal(r1, sortCols[k].id)
             b == RawVal(r2, sortCols[k].id)
         IN  IF a = b THEN RawOrdered(r1, r2, sortCols, k + 1)
             ELSE IF sortCols[k].desc THEN StrLess(b, a) ELSE StrLess(a, b)

\* a row sequence as getSortedRowModel delivers it
SortedByRaw(rows, sortCols) ==
    \A i \in 1..(Len(rows) - 1) : RawOrdered(rows[i], rows[i + 1], sortCols, 1)

\* the columns of the sort keys, and the field values of the rows, the tree
\* is built for
GroupCols == {"company", "name", "created_at"}

GroupDates ==
    {[y |-> 2024, m |-> 3, d |-> 4, h |-> 10], [y |-> 2024, m |-> 3, d |-> 4, h |-> 11],
     [y |-> 2024, m |-> 3, d |-> 5, h |-> 10]}

GroupNames == {StrCell(<<"a">>)}

GroupCompanies == {StrCell(<<"x">>), StrCell(<<"y">>)}

\* rows get the ids 1, 2, ... in sequence order; email and phone are null
GroupRowValues ==
    {[name |-> n, company |-> co, created_at |-> dt] :
        n \in GroupNames, co \in GroupCompanies, dt \in GroupDates}

RowSeqs ==
    UNION {[1..n -> GroupRowValues] : n \in 0..MaxGroupRows}

WithIds(vals) ==
    [i \in 1..Len(vals) |->
        Client(i, vals[i].name, NullCell, NullCell, vals[i].company, vals[i].created_at)]

\* the non-empty sort specs over GroupCols with at most MaxGroupKeys keys
SortSpecs ==
    {s \in UNION {[1..n -> [id : GroupCols, desc : BOOLEAN]] : n \in 1..MaxGroupKeys} :
        \A i, j \in 1..Len(s) : i # j => s[i].id # s[j].id}

GroupInput(rows, s) ==
    [rows |-> rows, sortCols |-> s, tree |-> << >>, leaves |-> << >>, done |-> FALSE]

InitGroup ==
    /\ InitGrid
    /\ clients = << >>
    /\ filterCall = NoCall
    /\ \E vals \in RowSeqs, s \in SortSpecs :
          /\ SortedByRaw(WithIds(vals), s)
          /\ groupCall = GroupInput(WithIds(vals), s)
    /\ InitIo

\* the body render builds the tree of the sorted rows
EvalGroupTree ==
    /\ UNCHANGED <<outsideFn, filterCall>>
    /\ ~groupCall.done
    /\ LET tree == buildGroupTree(groupCall.rows, groupCall.sortCols, 0, EmptyText)
       IN  groupCall' = [groupCall EXCEPT !.tree = tree, !.leaves = LeafRows(tree),
                                          !.done = TRUE]
    /\ ev' = [type |-> "buildGroupTree", col |-> Null, arg |-> Null]

GroupNext == EvalGroupTree

SpecGroup == InitGroup /\ [][GroupNext]_vars

\* C14 as stated: for any non-empty SortSpec and any row sequence sorted by
\* the raw values of its keys, the leaves of buildGroupTree(rows, SortSpec, 0,
\* '') in tree order are exactly the input row sequence.
C14_LeavesReproduceRows ==
    groupCall.done => groupCall.leaves = groupCall.rows

\* the nodes of a level are what buildGroupTree makes at that depth: below
\* the last sort key rows, above it groups of that depth, grouped by the
\* column of the sort key at that position, over well-formed children
RECURSIVE WellFormed(_, _, _)
WellFormed(nodes, sortCols, depth) ==
    \A n \in 1..Len(nodes) :
        LET node == nodes[n]
        IN  IF depth >= Len(sortCols)
            THEN node.type = "row"
            ELSE /\ node.type = "group"
                 /\ node.depth = depth
                 /\ node.depth < Len(sortCols)
                 /\ node.columnId = sortCols[depth + 1].id
                 /\ WellFormed(node.children, sortCols, depth + 1)

\* the number of leaves that hold the row
LeafCount(leaves, row) == Cardinality({j \in 1..Len(leaves) : leaves[j] = row})

\* C30: the tree of buildGroupTree is well formed: a group node at depth d
\* groups by the column of SortSpec[d] over children of depth d+1, group
\* depths stay below len(SortSpec), rows are the nodes below depth
\* len(SortSpec)-1, and every input row is a leaf exactly once.
C30_TreeWellFormed ==
    groupCall.done =>
        /\ WellFormed(groupCall.tree, groupCall.sortCols, 0)
        /\ Len(groupCall.leaves) = Len(groupCall.rows)
        /\ \A i \in 1..Len(groupCall.rows) :
              LeafCount(groupCall.leaves, groupCall.rows[i]) = 1

\* a tree of two levels of groups where a value of the second key comes back
\* after another one inside a group of the first key
C30_Witness ==
    /\ groupCall.done
    /\ Len(groupCall.sortCols) = MaxGroupKeys
    /\ Len(groupCall.rows) = MaxGroupRows
    /\ Len(groupCall.tree) = 1
    /\ Len(groupCall.tree[1].children) = 2
    /\ groupCall.tree[1].children[1].count = 2
    /\ groupCall.leaves # groupCall.rows

(***************************************************************************)
(* The row models of the table, the body and the pager.                    *)
(***************************************************************************)
\* r1 sorts strictly before r2
RawBefore(r1, r2, sortCols) == ~RawOrdered(r2, r1, sortCols, 1)

\* getSortedRowModel: stable sort of the rows by the sort keys
RECURSIVE SortRows(_, _)
SortRows(rows, sortCols) ==
    IF rows = << >> THEN << >>
    ELSE LET sorted == SortRows(SubSeq(rows, 1, Len(rows) - 1), sortCols)
             r == rows[Len(rows)]
             later == {i \in 1..Len(sorted) : RawBefore(r, sorted[i], sortCols)}
             at == IF later = {} THEN Len(sorted) + 1
                   ELSE CHOOSE i \in later : \A j \in later : i <= j
         IN  SubSeq(sorted, 1, at - 1) \o <<r>> \o SubSeq(sorted, at, Len(sorted))

\* the global filter accepts a row when the string form of some data cell
\* includes the text, case-insensitively
GlobalFilterAccepts(row, text) ==
    \/ text = EmptyText
    \/ \E i \in 1..Len(DataCols) :
          JsIncludes(ToLowerCase(JsStringOrEmpty(getValue(row, DataCols[i]))),
                     ToLowerCase(text))

\* a row passes the column filters when the filterFn of every filtered
\* column accepts it
ColumnFiltersAccept(row, cf) ==
    \A i \in 1..Len(cf) :
        operatorFilterFn(getValue(row, cf[i].id),
                         [defined |-> TRUE, value |-> cf[i].value], cf[i].operator)

\* table.getFilteredRowModel().rows
FilteredRows(rows, cf, text) ==
    SelectSeq(rows, LAMBDA r : ColumnFiltersAccept(r, cf) /\ GlobalFilterAccepts(r, text))

\* table.getSortedRowModel().rows: the filtered rows, sorted
SortedRows(rows, cf, text, sortCols) == SortRows(FilteredRows(rows, cf, text), sortCols)

\* table.getRowModel().rows: the current page of the sorted rows
PageRows(rows, pg) ==
    SubSeq(rows, pg.pageIndex * pg.pageSize + 1,
           Min2((pg.pageIndex + 1) * pg.pageSize, Len(rows)))

\* table.getPageCount()
PageCount(n, pageSize) == (n + pageSize - 1) \div pageSize

\* variant: the children are rendered whether the node is collapsed or not
RECURSIVE renderGroupedBody_AlwaysOpen(_, _)
renderGroupedBody_AlwaysOpen(nodes, collapsed) ==
    IF nodes = << >> THEN << >>
    ELSE LET node == nodes[1]
             rest == renderGroupedBody_AlwaysOpen(SubSeq(nodes, 2, Len(nodes)), collapsed)
         IN  IF node.type = "group"
             THEN <<[type |-> "group", key |-> node.key, row |-> Null,
                     count |-> node.count]>>
                    \o renderGroupedBody_AlwaysOpen(node.children, collapsed)
                    \o rest
             ELSE <<[type |-> "row", key |-> Null, row |-> node.row, count |-> 0]>> \o rest

\* renderGroupedBody(nodes): a group row per group node, showing node.count,
\* and, unless the node is collapsed, what its children render; a data row
\* per row node (a data row shows no count: 0)
RECURSIVE renderGroupedBody(_, _)
renderGroupedBody(nodes, collapsed) ==
    IF nodes = << >> THEN << >>
    ELSE LET node == nodes[1]
             rest == renderGroupedBody(SubSeq(nodes, 2, Len(nodes)), collapsed)
         IN  IF node.type = "group"
             THEN <<[type |-> "group", key |-> node.key, row |-> Null,
                     count |-> node.count]>>
                    \o (IF node.key \in collapsed THEN << >>
                        ELSE renderGroupedBody(node.children, collapsed))
                    \o rest
             ELSE <<[type |-> "row", key |-> Null, row |-> node.row, count |-> 0]>> \o rest

\* the condition under which the body is grouped and the pager is hidden
Grouped(nested, sortCols) == nested /\ Len(sortCols) > 0

\* variant: the group tree is built of the current page
Body_TreeOfPage(rows, cf, text, sortCols, pg, nested, collapsed) ==
    IF Grouped(nested, sortCols)
    THEN renderGroupedBody(
            buildGroupTree(PageRows(SortedRows(rows, cf, text, sortCols), pg),
                           sortCols, 0, EmptyText),
            collapsed)
    ELSE LET page == PageRows(SortedRows(rows, cf, text, sortCols), pg)
         IN  [i \in 1..Len(page) |-> [type |-> "row", key |-> Null, row |-> page[i], count |-> 0]]

\* the rows of <tbody>
Body(rows, cf, text, sortCols, pg, nested, collapsed) ==
    IF Grouped(nested, sortCols)
    THEN renderGroupedBody(
            buildGroupTree(SortedRows(rows, cf, text, sortCols), sortCols, 0, EmptyText),
            collapsed)
    ELSE LET page == PageRows(SortedRows(rows, cf, text, sortCols), pg)
         IN  [i \in 1..Len(page) |-> [type |-> "row", key |-> Null, row |-> page[i], count |-> 0]]

\* the body of the current state
CurrentBody ==
    Body(clients, columnFilters, globalFilter, sorting, pagination, nestedView,
         collapsedGroups)

\* the pager has display: none
PagerHidden == Grouped(nestedView, sorting)

\* keys of the group rows of the body
GroupRowKeys(body) == {body[i].key : i \in {j \in 1..Len(body) : body[j].type = "group"}}

\* ids of the data rows of the body
DataRowIds(body) == {body[i].row.id : i \in {j \in 1..Len(body) : body[j].type = "row"}}

\* keys of the group rows the user can click: only a grouped body has any
ClickableGroupKeys ==
    IF Grouped(nestedView, sorting) THEN GroupRowKeys(CurrentBody) ELSE {}

\* variant: the checkbox leaves the collapse set alone
ToggleNestedView_KeepCollapsed ==
    /\ nestedView' = ~nestedView
    /\ ev' = [type |-> "nested", col |-> Null, arg |-> Null]
    /\ UNCHANGED <<collapsedGroups, globalFilter, rowSelection, pagination>>
    /\ UNCHANGED outsideView

\* nested view checkbox
ToggleNestedView ==
    /\ nestedView' = ~nestedView
    /\ collapsedGroups' = {}
    /\ ev' = [type |-> "nested", col |-> Null, arg |-> Null]
    /\ UNCHANGED <<globalFilter, rowSelection, pagination>>
    /\ UNCHANGED outsideView

\* toggleGroup(key)
ToggleKey(collapsed, key) ==
    IF key \in collapsed THEN collapsed \ {key} ELSE collapsed \cup {key}

\* click on a group row
ToggleGroup(key) ==
    /\ Grouped(nestedView, sorting)
    /\ collapsedGroups' = ToggleKey(collapsedGroups, key)
    /\ ev' = [type |-> "group", col |-> Null, arg |-> key]
    /\ UNCHANGED <<nestedView, globalFilter, rowSelection, pagination>>
    /\ UNCHANGED outsideView

\* typing into the search box
SetGlobalFilter(text) ==
    /\ text # globalFilter
    /\ globalFilter' = text
    /\ ev' = [type |-> "search", col |-> Null, arg |-> Null]
    /\ UNCHANGED <<nestedView, collapsedGroups, rowSelection, pagination>>
    /\ UNCHANGED outsideView

\* variant: a page change resets the selection
SetPageIndex_ResetSelection(page) ==
    /\ ~PagerHidden
    /\ page \in 0..(PageCount(Len(FilteredRows(clients, columnFilters, globalFilter)),
                              pagination.pageSize) - 1)
    /\ page # pagination.pageIndex
    /\ pagination' = [pagination EXCEPT !.pageIndex = page]
    /\ rowSelection' = {}
    /\ ev' = [type |-> "page", col |-> Null, arg |-> Null]
    /\ UNCHANGED <<nestedView, collapsedGroups, globalFilter>>
    /\ UNCHANGED outsideView

\* page buttons of the pager: table.setPageIndex(page)
SetPageIndex(page) ==
    /\ ~PagerHidden
    /\ page \in 0..(PageCount(Len(FilteredRows(clients, columnFilters, globalFilter)),
                              pagination.pageSize) - 1)
    /\ page # pagination.pageIndex
    /\ pagination' = [pagination EXCEPT !.pageIndex = page]
    /\ ev' = [type |-> "page", col |-> Null, arg |-> Null]
    /\ UNCHANGED <<nestedView, collapsedGroups, globalFilter, rowSelection>>
    /\ UNCHANGED outsideView

\* page size select: table.setPageSize(size) keeps the first row of the
\* current page on the page shown
SetPageSize(size) ==
    /\ ~PagerHidden
    /\ size # pagination.pageSize
    /\ pagination' = [pageIndex |-> (pagination.pageIndex * pagination.pageSize) \div size,
                      pageSize |-> size]
    /\ ev' = [type |-> "pageSize", col |-> Null, arg |-> Null]
    /\ UNCHANGED <<nestedView, collapsedGroups, globalFilter, rowSelection>>
    /\ UNCHANGED outsideView

\* Row.id of the row of the record with the id: useReactTable is given no
\* getRowId, so it is the index of the record in `data`
RowIdOf(rows, id) == (CHOOSE i \in 1..Len(rows) : rows[i].id = id) - 1

\* checkbox of a row of the body: row.getToggleSelectedHandler()
ToggleRowSelected(id) ==
    /\ id \in DataRowIds(CurrentBody)
    /\ rowSelection' = LET key == RowIdOf(clients, id)
                       IN  IF key \in rowSelection THEN rowSelection \ {key}
                           ELSE rowSelection \cup {key}
    /\ ev' = [type |-> "select", col |-> Null, arg |-> Null]
    /\ UNCHANGED <<nestedView, collapsedGroups, globalFilter, pagination>>
    /\ UNCHANGED outsideView

\* clear selection button, rendered while rows are selected
ClearSelection ==
    /\ rowSelection # {}
    /\ rowSelection' = {}
    /\ ev' = [type |-> "clearSelection", col |-> Null, arg |-> Null]
    /\ UNCHANGED <<nestedView, collapsedGroups, globalFilter, pagination>>
    /\ UNCHANGED outsideView

\* the columns whose headers are clicked and the search texts typed, in the
\* specification of the nested view
NestedCols == {"company", "name"}

SearchTexts == {EmptyText, <<"=">>}

NestedNext ==
    \/ \E h \in NestedCols : HeaderClick(h)
    \/ ClearSort
    \/ ToggleNestedView
    \/ \E key \in ClickableGroupKeys : ToggleGroup(key)
    \/ \E text \in SearchTexts : SetGlobalFilter(text)
    \/ \E page \in 0..1 : SetPageIndex(page)
    \/ \E size \in PageSizes : SetPageSize(size)

SpecNested == InitView /\ [][NestedNext]_vars

\* the specification of the collapse set: every kind of view-state change,
\* each on one column, one filter text, one row
CollapseSortCol == "company"
CollapseDropCol == "name"
CollapseText == <<"a">>
CollapseRow == 1
CollapsePageSizes == {20, 50}

CollapseNext ==
    \/ ToggleNestedView
    \/ \E key \in ClickableGroupKeys : ToggleGroup(key)
    \/ HeaderClick(CollapseSortCol)
    \/ ClearSort
    \/ HeaderDragStart(CollapseSortCol)
    \/ DragOverHeader(CollapseDropCol)
    \/ DropOnHeader(CollapseDropCol)
    \/ DragEndAfterDrop
    \/ \E c \in FilterCols : FilterType(c, CollapseText)
    \/ \E c \in FilterCols : FilterTimerFire(c)
    \/ \E c \in FilterCols : FilterClear(c)
    \/ SetGlobalFilter(<<"=">>)
    \/ SetGlobalFilter(EmptyText)
    \/ ToggleRowSelected(CollapseRow)
    \/ ClearSelection
    \/ \E page \in 0..1 : SetPageIndex(page)
    \/ \E size \in CollapsePageSizes : SetPageSize(size)

SpecCollapse == InitView /\ [][CollapseNext]_vars

\* the group nodes of a tree, each with its position (the indices leading to
\* it from the root) and its key
RECURSIVE GroupNodes(_, _)
GroupNodes(nodes, path) ==
    UNION {IF nodes[i].type = "group"
           THEN {[path |-> Append(path, i), key |-> nodes[i].key]}
                    \cup GroupNodes(nodes[i].children, Append(path, i))
           ELSE {} : i \in 1..Len(nodes)}

\* the tree the body of the current state is rendered from
CurrentTree ==
    buildGroupTree(SortedRows(clients, columnFilters, globalFilter, sorting),
                   sorting, 0, EmptyText)

\* C15: the collapse set is emptied whenever nested view is toggled, and a
\* step that changes SortSpec, FilterSpec, the global filter, the selection,
\* the pagination or ColumnOrder leaves it unchanged; only a click on a
\* group row changes it otherwise.
C15_CollapseFrame ==
    [][/\ nestedView' # nestedView => collapsedGroups' = {}
       /\ ( \/ sorting' # sorting
            \/ columnFilters' # columnFilters
            \/ globalFilter' # globalFilter
            \/ rowSelection' # rowSelection
            \/ pagination' # pagination
            \/ columnOrder' # columnOrder ) => collapsedGroups' = collapsedGroups
       /\ collapsedGroups' # collapsedGroups =>
             \/ nestedView' # nestedView
             \/ ev'.type = "nested"
             \/ ev'.type = "group"]_vars

\* a group is still collapsed after the sort was cleared, a column moved, a
\* filter committed, the search box filled, a row selected and the page size
\* changed
C15_Witness ==
    /\ collapsedGroups # {}
    /\ nestedView
    /\ sorting = << >>
    /\ columnOrder # InitialColumnOrder
    /\ columnFilters # << >>
    /\ globalFilter # EmptyText
    /\ rowSelection # {}
    /\ pagination.pageSize # DefaultPageSize

\* C16 as stated: a click on the group row of one node flips the collapsed
\* status of that node and of no other group node of the tree.
C16_ToggleFlipsOneNode ==
    [][\A n \in GroupNodes(CurrentTree, << >>) :
          ToggleGroup(n.key) =>
              /\ (n.key \in collapsedGroups') # (n.key \in collapsedGroups)
              /\ \A m \in GroupNodes(CurrentTree, << >>) \ {n} :
                    (m.key \in collapsedGroups') = (m.key \in collapsedGroups)]_vars

\* the data rows of a body, in order
BodyRows(body) ==
    LET at == SelectSeq([i \in 1..Len(body) |-> i], LAMBDA i : body[i].type = "row")
    IN  [k \in 1..Len(at) |-> body[at[k]].row]

\* C17: when nested view is on and SortSpec is not empty, the pager is hidden
\* and the body, with no group collapsed, contains every filtered row exactly
\* once, whatever the page index and page size; otherwise the pager is shown
\* and the body is the current page of the sorted filtered rows.
C17_BodyAndPager ==
    LET filtered == FilteredRows(clients, columnFilters, globalFilter)
        sorted == SortRows(filtered, sorting)
        shown == BodyRows(CurrentBody)
        first == pagination.pageIndex * pagination.pageSize
        onPage == Max2(0, Min2(pagination.pageSize, Len(sorted) - first))
    IN  IF nestedView /\ Len(sorting) >= 1
        THEN /\ PagerHidden
             /\ GroupRowKeys(CurrentBody) \cap collapsedGroups = {} =>
                   /\ Len(shown) = Len(filtered)
                   /\ \A i \in 1..Len(filtered) :
                         Cardinality({j \in 1..Len(shown) : shown[j] = filtered[i]}) = 1
        ELSE /\ ~PagerHidden
             /\ shown = [i \in 1..onPage |-> sorted[first + i]]

\* the grouped body shows all rows while the pager, now hidden, was left on
\* the second page
C17_Witness ==
    /\ nestedView
    /\ Len(sorting) = 2
    /\ pagination.pageIndex = 1
    /\ collapsedGroups = {}
    /\ globalFilter = EmptyText
    /\ Len(BodyRows(CurrentBody)) = Len(clients)
    /\ Len(clients) > pagination.pageSize

\* the specification of the grouped body: sorting, the nested view checkbox,
\* clicks on group rows and the search box
RenderNext ==
    \/ \E h \in NestedCols : HeaderClick(h)
    \/ ClearSort
    \/ ToggleNestedView
    \/ \E key \in ClickableGroupKeys : ToggleGroup(key)
    \/ \E text \in SearchTexts : SetGlobalFilter(text)

SpecRender == InitView /\ [][RenderNext]_vars

\* every node of a tree with the keys of the group nodes above it and the
\* number of data rows beneath it
RECURSIVE TreeNodes(_, _, _)
TreeNodes(nodes, path, above) ==
    UNION {LET node == nodes[i]
           IN  IF node.type = "group"
               THEN {[path |-> Append(path, i), type |-> "group", key |-> node.key,
                      row |-> Null, above |-> above,
                      beneath |-> Len(LeafRows(node.children))]}
                       \cup TreeNodes(node.children, Append(path, i),
                                      above \cup {node.key})
               ELSE {[path |-> Append(path, i), type |-> "row", key |-> Null,
                      row |-> node.row, above |-> above, beneath |-> 0]}
           : i \in 1..Len(nodes)}

\* C31: in nested view a data row is rendered iff none of its ancestor groups
\* is collapsed, a group header is rendered iff none of its proper ancestors
\* is collapsed, and the count on a group header is the number of data rows
\* beneath the group, collapsed or not: the body has one row for each such
\* node and no other row.
C31_RenderedNodes ==
    Grouped(nestedView, sorting) =>
        LET nodes == TreeNodes(CurrentTree, << >>, {})
            visible == {n \in nodes : n.above \cap collapsedGroups = {}}
            groups == {n \in visible : n.type = "group"}
            body == CurrentBody
            headers == {j \in 1..Len(body) : body[j].type = "group"}
        IN  /\ Len(body) = Cardinality(visible)
            /\ DataRowIds(body) = {n.row.id : n \in visible \ groups}
            /\ \A n \in groups :
                  Cardinality({j \in headers : /\ body[j].key = n.key
                                               /\ body[j].count = n.beneath})
                     = Cardinality({m \in groups : /\ m.key = n.key
                                                   /\ m.beneath = n.beneath})

\* a group of the first sort key is collapsed and hides its rows, another
\* one is open with a collapsed group of the second key inside
C31_Witness ==
    /\ Grouped(nestedView, sorting)
    /\ Len(sorting) = 2
    /\ \E i, j \in 1..Len(CurrentBody) :
          /\ i # j
          /\ CurrentBody[i].type = "group"
          /\ CurrentBody[j].type = "group"
          /\ CurrentBody[i].key \in collapsedGroups
          /\ CurrentBody[j].key \notin collapsedGroups
          /\ CurrentBody[i].count > 0
    /\ Len(BodyRows(CurrentBody)) < Len(clients)

(***************************************************************************)
(* Inline editing: the actions column, the edited cells, and the onSave    *)
(* collaborator.                                                           *)
(***************************************************************************)
\* the fields the Edit button copies into the draft
EditableFields == {"name", "email", "phone", "company", "created_at"}

\* the raw value of a field of row.original: a string or null
Original(row, field) ==
    IF field = "created_at" THEN StrCell(IsoString(row.created_at)) ELSE row[field]

\* variant: a null field is copied as the text "null"
InitialValues_NullAsText(row) ==
    [f \in EditableFields |->
        IF Original(row, f).kind = "string" THEN Original(row, f).str
        ELSE <<"n", "u", "l", "l">>]

\* initialValues of the Edit button: row.original.<field> ?? ''
InitialValues(row) == [f \in EditableFields |-> JsStringOrEmpty(Original(row, f))]

\* variant: the new draft holds the changed field only
HandleFieldChange_FieldOnly(ref, field, value) == [f \in {field} |-> value]

\* handleFieldChange: { ...editValuesRef.current, [field]: value }
HandleFieldChange(ref, field, value) ==
    [f \in (DOMAIN ref) \cup {field} |-> IF f = field THEN value ELSE ref[f]]

\* the instants of the rows of the row list
KnownInstants == {clients[i].created_at : i \in 1..Len(clients)}

\* { ...row.original, ...editValuesRef.current }: the record passed to onSave
SaveRecord(row, ref) ==
    [f \in (DOMAIN row) |-> IF f \in DOMAIN ref THEN StrCell(ref[f])
                            ELSE IF f = "created_at" THEN StrCell(IsoString(row.created_at))
                            ELSE row[f]]

\* the row with the id, as the body renders it (row.original)
RowById(rows, id) == rows[CHOOSE i \in 1..Len(rows) : rows[i].id = id]

\* how an onSave call can end: the update succeeded; the update failed and
\* onSave recorded the error and returned; the update failed and onSave threw
OnSaveOutcomes == {"ok", "error", "throw"}

\* `await onSave(...)` continues with the next statement unless the promise
\* is rejected
AwaitContinues(outcome) == outcome # "throw"

\* the row list after the call: on success the collaborator replaces the
\* row by the record it was given, on failure the list stays
OnSaveRows(rows, record, outcome) ==
    IF outcome = "ok"
    THEN [i \in 1..Len(rows) |->
            IF rows[i].id = record.id
            THEN [record EXCEPT !.created_at =
                     CHOOSE dt \in KnownInstants : IsoString(dt) = record.created_at.str]
            ELSE rows[i]]
    ELSE rows

\* Edit button of a row that is not in edit mode
BeginEdit(id) ==
    /\ id # editingRowId
    /\ editingRowId' = id
    /\ id \in DataRowIds(CurrentBody)
    /\ editValues' = InitialValues(RowById(clients, id))
    /\ editValuesRef' = InitialValues(RowById(clients, id))
    /\ ev' = [type |-> "edit", col |-> Null,
              arg |-> IF editingRowId = NoRowId THEN "fresh" ELSE "switch"]
    /\ UNCHANGED <<clients, pendingSaves>>
    /\ UNCHANGED outsideEdit

\* an input of the row in edit mode reports a value
SetField(field, value) ==
    /\ editingRowId # NoRowId
    /\ editValuesRef' = HandleFieldChange(editValuesRef, field, value)
    /\ editingRowId \in DataRowIds(CurrentBody)
    /\ editValues' = HandleFieldChange(editValuesRef, field, value)
    /\ ev' = [type |-> "field", col |-> field, arg |-> Null]
    /\ UNCHANGED <<clients, editingRowId, pendingSaves>>
    /\ UNCHANGED outsideEdit

\* Cancel button of the row in edit mode
CancelEdit ==
    /\ editingRowId # NoRowId
    /\ editingRowId' = NoRowId
    /\ editingRowId \in DataRowIds(CurrentBody)
    /\ editValues' = << >>
    /\ editValuesRef' = << >>
    /\ ev' = [type |-> "cancel", col |-> Null,
              arg |-> IF editValues = InitialValues(RowById(clients, editingRowId))
                      THEN "clean" ELSE "dirty"]
    /\ UNCHANGED <<clients, pendingSaves>>
    /\ UNCHANGED outsideEdit

\* Save button of the row in edit mode, up to the await: onSave is called
\* with the merged record
SaveClick ==
    /\ editingRowId # NoRowId
    /\ Len(pendingSaves) < MaxPendingSaves
    /\ editingRowId \in DataRowIds(CurrentBody)
    /\ pendingSaves' = Append(pendingSaves,
                              [id |-> editingRowId,
                               record |-> SaveRecord(RowById(clients, editingRowId),
                                                     editValuesRef)])
    /\ ev' = [type |-> "save", col |-> Null, arg |-> Null]
    /\ UNCHANGED <<clients, editingRowId, editValues, editValuesRef>>
    /\ UNCHANGED outsideEdit

\* the k-th awaited onSave call settles; unless it threw, the Save handler
\* goes on to clear the edit session
SaveSettle(k, outcome) ==
    /\ k \in 1..Len(pendingSaves)
    /\ clients' = OnSaveRows(clients, pendingSaves[k].record, outcome)
    /\ pendingSaves' = SubSeq(pendingSaves, 1, k - 1)
                          \o SubSeq(pendingSaves, k + 1, Len(pendingSaves))
    /\ IF AwaitContinues(outcome)
       THEN /\ editingRowId' = NoRowId
            /\ editValues' = << >>
            /\ editValuesRef' = << >>
       ELSE UNCHANGED <<editingRowId, editValues, editValuesRef>>
    /\ ev' = [type |-> "settled", col |-> Null, arg |-> outcome]
    /\ UNCHANGED outsideEdit

\* the rows whose buttons are clicked, and the fields and texts typed, in the
\* specification of the edit session
EditRowIds == {1, 2}

EditFields == {"name", "email"}

FieldTexts == {<<"c">>}

EditNext ==
    \/ \E id \in EditRowIds : BeginEdit(id)
    \/ \E field \in EditFields, value \in FieldTexts : SetField(field, value)
    \/ CancelEdit
    \/ SaveClick
    \/ \E k \in 1..MaxPendingSaves, outcome \in OnSaveOutcomes : SaveSettle(k, outcome)

\* the row list of the specification of the edit session: the first rows
EditClients == SubSeq(ViewClients, 1, NumEditRows)

InitEdit ==
    /\ InitGrid
    /\ clients = EditClients
    /\ filterCall = NoCall
    /\ groupCall = NoGroupCall
    /\ InitIo

SpecEdit == InitEdit /\ [][EditNext]_vars

\* the text of a field of a row: the string itself, nothing for null
FieldText(row, field) ==
    IF field = "created_at" THEN IsoString(row.created_at)
    ELSE IF row[field].kind = "string" THEN row[field].str ELSE EmptyText

C19_SaveClearsIffSucceeded ==
    [][\A k \in 1..MaxPendingSaves, outcome \in OnSaveOutcomes :
          (SaveSettle(k, outcome) /\ editingRowId = pendingSaves[k].id) =>
             IF outcome = "ok"
             THEN editingRowId' = NoRowId /\ editValues' = << >>
             ELSE editingRowId' = editingRowId /\ editValues' = editValues]_vars

\* C20: begin, setField and cancel never call the collaborator's update and
\* never change a row of the row list; setField changes the named field of
\* the draft only; cancel leaves no edited row and an empty draft.
C20_EditIsolated ==
    [][/\ ( \/ \E id \in EditRowIds : BeginEdit(id)
            \/ \E field \in EditFields, value \in FieldTexts : SetField(field, value)
            \/ CancelEdit ) => pendingSaves' = pendingSaves /\ clients' = clients
       /\ \A field \in EditFields, value \in FieldTexts :
            SetField(field, value) =>
               /\ editingRowId' = editingRowId
               /\ DOMAIN editValues' = DOMAIN editValues \cup {field}
               /\ editValues'[field] = value
               /\ \A f \in DOMAIN editValues \ {field} : editValues'[f] = editValues[f]
       /\ CancelEdit => editingRowId' = NoRowId /\ editValues' = << >>]_vars

\* a draft with a typed value was cancelled: no row is edited, the draft is
\* empty and the row list is the one the grid was mounted with
C20_Witness ==
    /\ ev = [type |-> "cancel", col |-> Null, arg |-> "dirty"]
    /\ editingRowId = NoRowId
    /\ editValues = << >>
    /\ clients = EditClients
    /\ pendingSaves = << >>

\* C32 as stated: when a save of row A completes while the edit session is on
\* another row B, begun while the save was in flight, the session is still on
\* B with B's draft: a save completion ends the session of its own row only.
C32_SaveEndsOwnSessionOnly ==
    [][\A k \in 1..MaxPendingSaves, outcome \in OnSaveOutcomes :
          ( /\ SaveSettle(k, outcome)
            /\ editingRowId # NoRowId
            /\ editingRowId # pendingSaves[k].id ) =>
               /\ editingRowId' = editingRowId
               /\ editValues' = editValues
               /\ editValuesRef' = editValuesRef]_vars

\* C38 as stated: when Save is clicked right after Edit on row R, with no
\* field edited in between, the record passed to the collaborator's update
\* has R's value in every field, null fields included.
C38_UneditedSaveSendsRow ==
    [][(ev.type = "edit" /\ SaveClick) =>
          LET row == RowById(clients, editingRowId)
              record == pendingSaves'[Len(pendingSaves')].record
          IN  /\ DOMAIN record = DOMAIN row
              /\ record.id = row.id
              /\ \A f \in EditableFields : record[f] = Original(row, f)]_vars

\* ---------------------------------------------------------------------------
\* Row selection
\* ---------------------------------------------------------------------------

\* Row.id of table.getRowModel().rows, the rows of the current page
PageRowIds ==
    LET page == PageRows(SortedRows(clients, columnFilters, globalFilter, sorting),
                         pagination)
    IN  {RowIdOf(clients, page[i].id) : i \in 1..Len(page)}

\* table.getIsAllPageRowsSelected(): the page has rows and all are selected
getIsAllPageRowsSelected(pageIds, selection) ==
    pageIds # {} /\ pageIds \subseteq selection

\* table.toggleAllPageRowsSelected(value): every row of the page is given
\* the value
toggleAllPageRowsSelected(pageIds, selection, value) ==
    IF value THEN selection \cup pageIds ELSE selection \ pageIds

\* checkbox of the select column's header: the handler passes the checkbox's
\* new checked state, the negation of the one rendered
ToggleAllPageRowsSelected ==
    /\ rowSelection' =
          LET pageIds == PageRowIds
          IN  toggleAllPageRowsSelected(pageIds, rowSelection,
                                        ~getIsAllPageRowsSelected(pageIds, rowSelection))
    /\ ev' = [type |-> "selectAll", col |-> Null, arg |-> Null]
    /\ UNCHANGED <<nestedView, collapsedGroups, globalFilter, pagination>>
    /\ UNCHANGED outsideView

\* the specification of the selection: the three selection controls and
\* every other kind of view-state change.
\* the column whose header is clicked and dragged, and the header it is
\* dropped on
SelectSortCol == "name"
SelectDropCol == "company"

SelectNext ==
    \/ ToggleRowSelected(CollapseRow)
    \/ ToggleAllPageRowsSelected
    \/ ClearSelection
    \/ HeaderClick(SelectSortCol)
    \/ ClearSort
    \/ HeaderDragStart(SelectSortCol)
    \/ DragOverHeader(SelectDropCol)
    \/ DropOnHeader(SelectDropCol)
    \/ DragEndAfterDrop
    \/ \E c \in FilterCols : FilterType(c, CollapseText)
    \/ \E c \in FilterCols : FilterTimerFire(c)
    \/ SetGlobalFilter(<<"=">>)
    \/ SetGlobalFilter(EmptyText)
    \/ \E page \in 0..1 : SetPageIndex(page)
    \/ \E size \in CollapsePageSizes : SetPageSize(size)
    \/ ToggleNestedView

SpecSelect == InitView /\ [][SelectNext]_vars

\* the handlers that may change the selection
SelectionHandlers == {"select", "selectAll", "clearSelection"}

\* C21: the selection changes only through a row checkbox, the select-all-
\* on-page checkbox and the clear-selection button; a change of SortSpec,
\* FilterSpec, the global filter, the page index or size, ColumnOrder or the
\* nested view leaves the selection set unchanged.
C21_SelectionFrame ==
    [][/\ rowSelection' # rowSelection => ev'.type \in SelectionHandlers
       /\ ( \/ sorting' # sorting
            \/ columnFilters' # columnFilters
            \/ globalFilter' # globalFilter
            \/ pagination' # pagination
            \/ columnOrder' # columnOrder
            \/ nestedView' # nestedView ) => rowSelection' = rowSelection]_vars

\* row 1 is selected and stays selected on page 2, where it is not shown
C21_Witness ==
    /\ ev.type = "page"
    /\ pagination.pageIndex = 1
    /\ RowIdOf(clients, CollapseRow) \in rowSelection
    /\ RowIdOf(clients, CollapseRow) \notin PageRowIds

(***************************************************************************)
(* The export functions (ExportUtils.ts).  A text is a sequence of         *)
(* characters; the fixed pieces of markup a function writes (<tr>, <td>,   *)
(* <record>, ...) are single elements of the sequence.  The download and   *)
(* print plumbing and the export time stamp are not part of the model.     *)
(***************************************************************************)
\* most rows of an exported row list
MaxExportRows == 2

\* COLUMN_LABELS of the columns of the grid; the empty text for any other id
COLUMN_LABELS(col) ==
    CASE col = "name" -> <<"N", "a", "m", "e">>
      [] col = "email" -> <<"E", "m", "a", "i", "l">>
      [] col = "phone" -> <<"P", "h", "o", "n", "e">>
      [] col = "company" -> <<"C", "o", "m", "p", "a", "n", "y">>
      [] col = "created_at" -> <<"C", "r", "e", "a", "t", "e", "d">>
      [] OTHER -> EmptyText

\* COLUMN_LABELS[col] || col
Label(col) == IF COLUMN_LABELS(col) # EmptyText THEN COLUMN_LABELS(col) ELSE ColChars(col)

\* String(n) for 0 <= n < 100
Decimal(n) == IF n < 10 THEN <<DigitChar(n)>> ELSE Pad2(n)

DaysInMonth(y, m) ==
    IF m = 2 THEN (IF y % 4 = 0 /\ (y % 100 # 0 \/ y % 400 = 0) THEN 29 ELSE 28)
    ELSE IF m \in {4, 6, 9, 11} THEN 30 ELSE 31

\* the calendar day of an instant in a time zone tz hours east of UTC
LocalDate(dt, tz) ==
    LET h == dt.h + tz
    IN  IF h < 0
        THEN IF dt.d > 1 THEN [y |-> dt.y, m |-> dt.m, d |-> dt.d - 1]
             ELSE IF dt.m > 1
                  THEN [y |-> dt.y, m |-> dt.m - 1, d |-> DaysInMonth(dt.y, dt.m - 1)]
                  ELSE [y |-> dt.y - 1, m |-> 12, d |-> 31]
        ELSE IF h >= 24
        THEN IF dt.d < DaysInMonth(dt.y, dt.m)
             THEN [y |-> dt.y, m |-> dt.m, d |-> dt.d + 1]
             ELSE IF dt.m < 12 THEN [y |-> dt.y, m |-> dt.m + 1, d |-> 1]
                  ELSE [y |-> dt.y + 1, m |-> 1, d |-> 1]
        ELSE [y |-> dt.y, m |-> dt.m, d |-> dt.d]

\* new Date(iso).toLocaleDateString('en-US'): M/D/YYYY of the local day
toLocaleDateString(dt, tz) ==
    LET l == LocalDate(dt, tz)
    IN  Decimal(l.m) \o <<"/">> \o Decimal(l.d) \o <<"/">> \o Year4(l.y)

\* getColumnValue(client, columnId), as the string the callers make of it
getColumnValue(client, columnId, tz) ==
    IF columnId = "created_at" THEN toLocaleDateString(client.created_at, tz)
    ELSE JsStringOrEmpty(client[columnId])

\* variant: the row limit is not applied
limitedData_NoCap(data, rowLimit) == data

\* rowLimit > 0 ? data.slice(0, rowLimit) : data
limitedData(data, rowLimit) ==
    IF rowLimit > 0 THEN SubSeq(data, 1, Min2(rowLimit, Len(data))) ELSE data

\* variant: hidden columns are exported too
visibleColumns_IgnoreVisibility(order, visibility) ==
    SelectSeq(order, LAMBDA col : col # "select" /\ col # "actions")

\* columnOrder.filter(col => col !== 'select' && col !== 'actions' &&
\* columnVisibility[col] !== false)
visibleColumns(order, visibility) ==
    SelectSeq(order, LAMBDA col : /\ col # "select"
                                  /\ col # "actions"
                                  /\ (col \notin DOMAIN visibility \/ visibility[col]))

\* texts.join(sep)
RECURSIVE Join(_, _)
Join(texts, sep) ==
    IF texts = << >> THEN EmptyText
    ELSE IF Len(texts) = 1 THEN texts[1]
    ELSE texts[1] \o sep \o Join(Tail(texts), sep)

\* str.replace(/"/g, '""')
RECURSIVE DoubleQuotes(_)
DoubleQuotes(str) ==
    IF str = << >> THEN << >>
    ELSE (IF str[1] = "\"" THEN <<"\"", "\"">> ELSE <<str[1]>>) \o DoubleQuotes(Tail(str))

\* variant: the field is wrapped, its quotes are left single
escapeField_QuotesKept(str) ==
    IF \E i \in 1..Len(str) : str[i] \in {",", "\"", "\n"}
    THEN <<"\"">> \o str \o <<"\"">>
    ELSE str

\* escapeField(field)
escapeField(str) ==
    IF \E i \in 1..Len(str) : str[i] \in {",", "\"", "\n"}
    THEN <<"\"">> \o DoubleQuotes(str) \o <<"\"">>
    ELSE str

\* row.map(escapeField).join(',')
CsvLine(fields) == Join([j \in 1..Len(fields) |-> escapeField(fields[j])], <<",">>)

\* headers: the labels of the columns
HeaderLabels(cols) == [j \in 1..Len(cols) |-> Label(cols[j])]

\* rows: limitedData.map(client => visibleColumns.map(col => getColumnValue(client, col)))
ValueRows(limited, cols, tz) ==
    [i \in 1..Len(limited) |->
        [j \in 1..Len(cols) |-> getColumnValue(limited[i], cols[j], tz)]]

exportToCSV(data, order, visibility, rowLimit, excludeHeaders, tz) ==
    LET cols == visibleColumns(order, visibility)
        rows == ValueRows(limitedData(data, rowLimit), cols, tz)
        lines == [i \in 1..Len(rows) |-> CsvLine(rows[i])]
        csvRows == IF excludeHeaders THEN lines
                   ELSE <<CsvLine(HeaderLabels(cols))>> \o lines
    IN  [format |-> "csv", rows |-> rows, csvRows |-> csvRows,
         csvContent |-> Join(csvRows, <<"\n">>)]

\* theadHtml
theadHtml(headers, excludeHeaders) ==
    IF excludeHeaders THEN EmptyText
    ELSE <<"<thead>", "<tr>">>
            \o Join([j \in 1..Len(headers) |-> <<"<th>">> \o headers[j] \o <<"</th>">>],
                    EmptyText)
            \o <<"</tr>", "</thead>">>

\* `<tr>${row.map(cell => `<td>${cell}</td>`).join('')}</tr>`
Tr(row) ==
    <<"<tr>">> \o Join([j \in 1..Len(row) |-> <<"<td>">> \o row[j] \o <<"</td>">>], EmptyText)
        \o <<"</tr>">>

\* the content of tbody
TbodyHtml(rows) == Join([i \in 1..Len(rows) |-> Tr(rows[i])], EmptyText)

exportToExcel(data, order, visibility, rowLimit, excludeHeaders, tz) ==
    LET cols == visibleColumns(order, visibility)
        rows == ValueRows(limitedData(data, rowLimit), cols, tz)
    IN  [format |-> "excel", rows |-> rows,
         thead |-> theadHtml(HeaderLabels(cols), excludeHeaders),
         tbody |-> TbodyHtml(rows)]

\* exportToPDF writes the document into the window window.open delivers;
\* with no window it alerts and returns
exportToPDF(data, order, visibility, rowLimit, excludeHeaders, tz, popup) ==
    LET cols == visibleColumns(order, visibility)
        rows == ValueRows(limitedData(data, rowLimit), cols, tz)
    IN  IF ~popup
        THEN [format |-> "pdf", written |-> FALSE, rows |-> << >>,
              thead |-> EmptyText, tbody |-> EmptyText]
        ELSE [format |-> "pdf", written |-> TRUE, rows |-> rows,
              thead |-> theadHtml(HeaderLabels(cols), excludeHeaders),
              tbody |-> TbodyHtml(rows)]

\* client[col] ?? null
OrNull(cell) == IF cell.kind = "string" THEN cell ELSE NullCell

\* a row of jsonData: the visible columns and the row's values, in order
JsonRow(client, cols) ==
    [j \in 1..Len(cols) |-> [id |-> cols[j], value |-> OrNull(getValue(client, cols[j]))]]

exportToJSON(data, order, visibility, rowLimit, excludeHeaders) ==
    LET cols == visibleColumns(order, visibility)
        limited == limitedData(data, rowLimit)
        jsonData == [i \in 1..Len(limited) |-> JsonRow(limited[i], cols)]
    IN  [format |-> "json",
         jsonOutput |->
            IF excludeHeaders THEN [type |-> "array", items |-> jsonData]
            ELSE [type |-> "object",
                  metadata |-> [recordCount |-> Len(jsonData),
                                columnCount |-> Len(cols),
                                columns |-> [j \in 1..Len(cols) |->
                                                [id |-> cols[j], label |-> Label(cols[j])]]],
                  data |-> jsonData]]

\* the five replacements of escapeXML, & first
XmlEntity(ch) ==
    CASE ch = "&" -> <<"&", "a", "m", "p", ";">>
      [] ch = "<" -> <<"&", "l", "t", ";">>
      [] ch = ">" -> <<"&", "g", "t", ";">>
      [] ch = "\"" -> <<"&", "q", "u", "o", "t", ";">>
      [] ch = "'" -> <<"&", "a", "p", "o", "s", ";">>
      [] OTHER -> <<ch>>

RECURSIVE EscapeXmlText(_)
EscapeXmlText(str) ==
    IF str = << >> THEN << >> ELSE XmlEntity(str[1]) \o EscapeXmlText(Tail(str))

\* escapeXML(str): the empty text for null and undefined
escapeXML(cell) == IF cell.kind = "string" THEN EscapeXmlText(cell.str) ELSE EmptyText

\* `<${col}>${text}</${col}>`
XmlField(col, text) ==
    <<"<">> \o ColChars(col) \o <<">">> \o text \o <<"<", "/">> \o ColChars(col) \o <<">">>

\* a record element: one field per column, with the texts given
XmlRecord(cols, texts) ==
    <<"<record>">> \o Join([j \in 1..Len(cols) |-> XmlField(cols[j], texts[j])], EmptyText)
        \o <<"</record>">>

\* the metadata element
XmlMetadata(recordCount, cols) ==
    <<"<metadata>", "<recordCount>">> \o Decimal(recordCount)
        \o <<"</recordCount>", "<columnCount>">> \o Decimal(Len(cols))
        \o <<"</columnCount>", "<columns>">>
        \o Join([j \in 1..Len(cols) |->
                    <<"<column>", "<id>">> \o EscapeXmlText(ColChars(cols[j]))
                        \o <<"</id>", "<label>">> \o EscapeXmlText(Label(cols[j]))
                        \o <<"</label>", "</column>">>], EmptyText)
        \o <<"</columns>", "</metadata>">>

exportToXML(data, order, visibility, rowLimit, excludeHeaders) ==
    LET cols == visibleColumns(order, visibility)
        limited == limitedData(data, rowLimit)
    IN  [format |-> "xml",
         metadata |-> IF ~excludeHeaders THEN XmlMetadata(Len(limited), cols)
                      ELSE EmptyText,
         data |-> Join([i \in 1..Len(limited) |->
                          XmlRecord(cols, [j \in 1..Len(cols) |->
                                             escapeXML(getValue(limited[i], cols[j]))])],
                       EmptyText)]

\* time zones of the browser, hours east of UTC
TimeZones == {-11, 0}

\* the rows exported: texts with the characters the formats escape, null
\* cells, and dates whose local day, month or padding differs
ExportRowSet ==
    {Client(1, StrCell(<<"a">>), NullCell, NullCell, StrCell(<<"x">>),
            Instant(2024, 3, 4, 10)),
     Client(2, StrCell(<<",", "\"">>), StrCell(<<"b">>), NullCell, StrCell(<<"x">>),
            Instant(2024, 12, 15, 10)),
     Client(3, StrCell(<<"<", "\n">>), StrCell(<<"&">>), NullCell, StrCell(<<"y">>),
            Instant(2024, 3, 1, 10))}

\* row lists without repetition, up to MaxExportRows rows
ExportData ==
    {d \in UNION {[1..n -> ExportRowSet] : n \in 0..MaxExportRows} :
        \A i, j \in DOMAIN d : i # j => d[i] # d[j]}

\* the column order of the grid as mounted and after drags
ExportColumnOrders ==
    {InitialColumnOrder,
     <<"created_at", "select", "company", "name", "actions", "email", "phone">>}

\* columnVisibility: no entry, one column hidden, one hidden and one shown
\* explicitly, every data column hidden
ExportVisibilities ==
    {[c \in {} |-> TRUE],
     [c \in {"name"} |-> FALSE],
     [c \in {"email", "created_at"} |-> c = "created_at"],
     [c \in {"name", "email", "phone", "company", "created_at"} |-> FALSE]}

ExportFormats == {"csv", "excel", "pdf", "json", "xml"}

\* the calls of the export functions; window.open matters to exportToPDF only
ExportInputs ==
    {[format |-> f, data |-> d, columnOrder |-> o, columnVisibility |-> v,
      rowLimit |-> n, excludeHeaders |-> x, tz |-> z, popup |-> w,
      out |-> NoOutput, done |-> FALSE] :
        f \in ExportFormats, d \in ExportData, o \in ExportColumnOrders,
        v \in ExportVisibilities, n \in 0..(MaxExportRows + 1), x \in BOOLEAN,
        z \in TimeZones, w \in BOOLEAN}

InitExport ==
    /\ InitGrid
    /\ InitListIdle
    /\ clients = << >>
    /\ filterCall = NoCall
    /\ groupCall = NoGroupCall
    /\ fieldCall = NoFieldCall
    /\ pagerCall = NoPagerCall
    /\ exportCall \in {c \in ExportInputs : c.format # "pdf" => c.popup}

\* the call returns: the record holds what the function produced
Returned(out) ==
    /\ ~exportCall.done
    /\ exportCall' = [exportCall EXCEPT !.out = out, !.done = TRUE]
    /\ ev' = [type |-> "export", col |-> Null, arg |-> exportCall.format]
    /\ UNCHANGED <<outsideIo, fieldCall, pagerCall>>

ExportCSV ==
    /\ exportCall.format = "csv"
    /\ Returned(exportToCSV(exportCall.data, exportCall.columnOrder,
                            exportCall.columnVisibility, exportCall.rowLimit,
                            exportCall.excludeHeaders, exportCall.tz))

ExportExcel ==
    /\ exportCall.format = "excel"
    /\ Returned(exportToExcel(exportCall.data, exportCall.columnOrder,
                              exportCall.columnVisibility, exportCall.rowLimit,
                              exportCall.excludeHeaders, exportCall.tz))

ExportPDF ==
    /\ exportCall.format = "pdf"
    /\ Returned(exportToPDF(exportCall.data, exportCall.columnOrder,
                            exportCall.columnVisibility, exportCall.rowLimit,
                            exportCall.excludeHeaders, exportCall.tz, exportCall.popup))

ExportJSON ==
    /\ exportCall.format = "json"
    /\ Returned(exportToJSON(exportCall.data, exportCall.columnOrder,
                             exportCall.columnVisibility, exportCall.rowLimit,
                             exportCall.excludeHeaders))

ExportXML ==
    /\ exportCall.format = "xml"
    /\ Returned(exportToXML(exportCall.data, exportCall.columnOrder,
                            exportCall.columnVisibility, exportCall.rowLimit,
                            exportCall.excludeHeaders))

ExportNext ==
    \/ ExportCSV
    \/ ExportExcel
    \/ ExportPDF
    \/ ExportJSON
    \/ ExportXML

SpecExport == InitExport /\ [][ExportNext]_vars

\* the call has produced an export (exportToPDF produces none when the
\* browser gives it no window)
Emitted == exportCall.done /\ (exportCall.format = "pdf" => exportCall.out.written)

\* the number of rows the claim expects
ExpectedCount ==
    IF exportCall.rowLimit > 0
    THEN (IF exportCall.rowLimit < Len(exportCall.data) THEN exportCall.rowLimit
          ELSE Len(exportCall.data))
    ELSE Len(exportCall.data)

\* the leading rows of the input
LeadingRows == [i \in 1..ExpectedCount |-> exportCall.data[i]]

\* the columns the claim expects: those of columnOrder that are neither
\* select nor actions nor marked invisible
ExpectedColumns ==
    LET keep == {k \in 1..Len(exportCall.columnOrder) :
                    /\ exportCall.columnOrder[k] \notin {"select", "actions"}
                    /\ ~ (/\ exportCall.columnOrder[k] \in DOMAIN exportCall.columnVisibility
                          /\ exportCall.columnVisibility[exportCall.columnOrder[k]] = FALSE)}
        at == SelectSeq([k \in 1..Len(exportCall.columnOrder) |-> k], LAMBDA k : k \in keep)
    IN  [j \in 1..Len(at) |-> exportCall.columnOrder[at[j]]]

\* how often a piece of markup occurs in a text
CountOf(text, piece) == Cardinality({i \in 1..Len(text) : text[i] = piece})

\* the columns of the call's output, as the function chose them
OutColumns == visibleColumns(exportCall.columnOrder, exportCall.columnVisibility)

\* C22: in each of the five formats the data records emitted are the leading
\* min(rowLimit, n) rows of the input in input order when rowLimit > 0 and
\* all n rows when rowLimit is 0; the header block (CSV header line, thead,
\* JSON and XML metadata) is absent from the output iff excludeHeaders.
C22_RowCapAndHeader ==
    Emitted =>
      LET out == exportCall.out
          x == exportCall.excludeHeaders
          n == ExpectedCount
          values == ValueRows(LeadingRows, OutColumns, exportCall.tz)
      IN  CASE exportCall.format = "csv" ->
                 /\ Len(out.csvRows) = n + (IF x THEN 0 ELSE 1)
                 /\ ~x => out.csvRows[1] = CsvLine(HeaderLabels(OutColumns))
                 /\ \A i \in 1..n :
                       out.csvRows[i + (IF x THEN 0 ELSE 1)] = CsvLine(values[i])
            [] exportCall.format \in {"excel", "pdf"} ->
                 /\ (out.thead = EmptyText) <=> x
                 /\ CountOf(out.thead, "<thead>") = (IF x THEN 0 ELSE 1)
                 /\ CountOf(out.tbody, "<tr>") = n
                 /\ out.tbody = Join([i \in 1..n |-> Tr(values[i])], EmptyText)
            [] exportCall.format = "json" ->
                 /\ (out.jsonOutput.type = "array") <=> x
                 /\ ("metadata" \in DOMAIN out.jsonOutput) <=> ~x
                 /\ LET records == IF out.jsonOutput.type = "array"
                                   THEN out.jsonOutput.items ELSE out.jsonOutput.data
                    IN  /\ Len(records) = n
                        /\ \A i \in 1..n :
                              records[i] = JsonRow(exportCall.data[i], OutColumns)
                 /\ ~x => out.jsonOutput.metadata.recordCount = n
            [] exportCall.format = "xml" ->
                 /\ (out.metadata = EmptyText) <=> x
                 /\ CountOf(out.metadata, "<metadata>") = (IF x THEN 0 ELSE 1)
                 /\ CountOf(out.data, "<record>") = n
                 /\ out.data =
                       Join([i \in 1..n |->
                               XmlRecord(OutColumns,
                                         [j \in 1..Len(OutColumns) |->
                                            escapeXML(getValue(exportCall.data[i],
                                                               OutColumns[j]))])],
                            EmptyText)

\* a CSV export of two rows with row limit 1 and headers: the header line
\* and the first row
C22_Witness ==
    /\ exportCall.done
    /\ exportCall.format = "csv"
    /\ Len(exportCall.data) = 2
    /\ exportCall.rowLimit = 1
    /\ ~exportCall.excludeHeaders
    /\ exportCall.columnVisibility = [c \in {"email", "created_at"} |-> c = "created_at"]
    /\ exportCall.columnOrder = InitialColumnOrder
    /\ exportCall.data[1].id = 2
    /\ exportCall.out.csvRows =
          << <<"N", "a", "m", "e", ",", "P", "h", "o", "n", "e", ",",
               "C", "o", "m", "p", "a", "n", "y", ",", "C", "r", "e", "a", "t", "e", "d">>,
             <<"\"", ",", "\"", "\"", "\"", ",", ",", "x", ",">>
                \o toLocaleDateString(exportCall.data[1].created_at, exportCall.tz) >>

\* C23: in every format the exported columns are the elements of columnOrder
\* that are neither select nor actions nor marked invisible, in columnOrder
\* order; every record has exactly these columns, and the column list is the
\* same function of the inputs in all five formats.
C23_ExportedColumns ==
    Emitted =>
      LET out == exportCall.out
          cols == ExpectedColumns
          limited == limitedData(exportCall.data, exportCall.rowLimit)
      IN  CASE exportCall.format = "csv" ->
                 /\ ~exportCall.excludeHeaders =>
                       out.csvRows[1] = CsvLine(HeaderLabels(cols))
                 /\ out.rows = ValueRows(limited, cols, exportCall.tz)
            [] exportCall.format \in {"excel", "pdf"} ->
                 /\ out.thead = theadHtml(HeaderLabels(cols), exportCall.excludeHeaders)
                 /\ out.rows = ValueRows(limited, cols, exportCall.tz)
                 /\ out.tbody = TbodyHtml(out.rows)
            [] exportCall.format = "json" ->
                 LET records == IF out.jsonOutput.type = "array"
                                THEN out.jsonOutput.items ELSE out.jsonOutput.data
                 IN  /\ \A i \in 1..Len(records) :
                           [j \in 1..Len(records[i]) |-> records[i][j].id] = cols
                     /\ out.jsonOutput.type = "object" =>
                           /\ out.jsonOutput.metadata.columnCount = Len(cols)
                           /\ [j \in 1..Len(out.jsonOutput.metadata.columns) |->
                                 out.jsonOutput.metadata.columns[j].id] = cols
            [] exportCall.format = "xml" ->
                 /\ out.data =
                       Join([i \in 1..Len(limited) |->
                               XmlRecord(cols, [j \in 1..Len(cols) |->
                                                  escapeXML(getValue(limited[i], cols[j]))])],
                            EmptyText)
                 /\ ~exportCall.excludeHeaders =>
                       out.metadata = XmlMetadata(Len(limited), cols)

\* a JSON export with the columns reordered and email hidden: each record
\* has created_at, company, name and phone, in this order
C23_Witness ==
    /\ exportCall.done
    /\ exportCall.format = "json"
    /\ exportCall.columnOrder # InitialColumnOrder
    /\ exportCall.columnVisibility = [c \in {"email", "created_at"} |-> c = "created_at"]
    /\ exportCall.excludeHeaders
    /\ Len(exportCall.out.jsonOutput.items) = 2
    /\ \A i \in 1..2 :
          [j \in 1..Len(exportCall.out.jsonOutput.items[i]) |->
              exportCall.out.jsonOutput.items[i][j].id]
            = <<"created_at", "company", "name", "phone">>

\* the texts the created_at cells of the exported rows show on screen
DisplayedDates ==
    LET limited == limitedData(exportCall.data, exportCall.rowLimit)
    IN  [i \in 1..Len(limited) |-> RenderDate(limited[i].created_at)]

\* the created_at texts of the exported records
ExportedDates ==
    LET out == exportCall.out
        at == CHOOSE j \in 1..Len(OutColumns) : OutColumns[j] = "created_at"
    IN  CASE exportCall.format \in {"csv", "excel", "pdf"} ->
                 [i \in 1..Len(out.rows) |-> out.rows[i][at]]
          [] exportCall.format = "json" ->
                 LET records == IF out.jsonOutput.type = "array"
                                THEN out.jsonOutput.items ELSE out.jsonOutput.data
                 IN  [i \in 1..Len(records) |-> records[i][at].value.str]
          [] exportCall.format = "xml" ->
                 LET limited == limitedData(exportCall.data, exportCall.rowLimit)
                 IN  [i \in 1..Len(limited) |-> escapeXML(getValue(limited[i], "created_at"))]

\* C24 as stated: in each format the exported created_at text of every row
\* equals the text the grid shows in the row's created_at cell.
C24_ExportedEqualsDisplayed ==
    (Emitted /\ \E j \in 1..Len(OutColumns) : OutColumns[j] = "created_at") =>
        ExportedDates = DisplayedDates

(***************************************************************************)
(* escapeField on its own: every field up to a length over the characters  *)
(* it looks for and one it does not.                                       *)
(***************************************************************************)
\* longest field
MaxFieldLen == 3

FieldChars == {"a", ",", "\"", "\n"}

InitField ==
    /\ InitGrid
    /\ InitListIdle
    /\ clients = << >>
    /\ filterCall = NoCall
    /\ groupCall = NoGroupCall
    /\ exportCall = NoExportCall
    /\ pagerCall = NoPagerCall
    /\ fieldCall \in {[field |-> f, result |-> << >>, done |-> FALSE] :
                        f \in StringsOver(FieldChars, MaxFieldLen)}

EvalEscapeField ==
    /\ ~fieldCall.done
    /\ fieldCall' = [fieldCall EXCEPT !.result = escapeField(fieldCall.field),
                                      !.done = TRUE]
    /\ ev' = [type |-> "escapeField", col |-> Null, arg |-> Null]
    /\ UNCHANGED <<outsideIo, exportCall, pagerCall>>

FieldNext == EvalEscapeField

SpecField == InitField /\ [][FieldNext]_vars

\* the number of double quotes among the first k characters of a text
QuotesUpTo(text, k) == Cardinality({i \in 1..k : text[i] = "\""})

\* inner is text with every double quote doubled
QuotesDoubled(text, inner) ==
    /\ Len(inner) = Len(text) + QuotesUpTo(text, Len(text))
    /\ \A i \in 1..Len(text) :
          LET at == i + QuotesUpTo(text, i - 1)
          IN  /\ inner[at] = text[i]
              /\ text[i] = "\"" => inner[at + 1] = "\""

\* C25: a field containing a comma, a double quote or a newline is emitted
\* wrapped in double quotes with every internal double quote doubled; any
\* other field is emitted unchanged.
C25_CsvEscaping ==
    fieldCall.done =>
        LET f == fieldCall.field
            r == fieldCall.result
        IN  IF \E i \in 1..Len(f) : f[i] = "," \/ f[i] = "\"" \/ f[i] = "\n"
            THEN /\ Len(r) >= 2
                 /\ r[1] = "\""
                 /\ r[Len(r)] = "\""
                 /\ QuotesDoubled(f, SubSeq(r, 2, Len(r) - 1))
            ELSE r = f

\* the field a", is emitted as "a"","
C25_Witness ==
    /\ fieldCall.done
    /\ fieldCall.field = <<"a", "\"", ",">>
    /\ fieldCall.result = <<"\"", "a", "\"", "\"", ",", "\"">>

(***************************************************************************)
(* DebouncedInput with the browser's timers and the passing of time.  Two  *)
(* filter inputs share the timer table.  A timer's callback runs when the  *)
(* timer is due: time does not pass a deadline, and a keystroke is handled *)
(* after the callbacks that are due at its instant.                        *)
(***************************************************************************)
\* most keystrokes of a behaviour
MaxKeystrokes == 3

\* what the user types into an input
DebounceTexts == {EmptyText, <<"a">>, <<"a", "b">>}

\* the times between two events
Elapses == {80, 200}

\* clearTimeout(id): the timer with this id is no longer pending
clearTimeout(pending, id) == {t \in pending : t.id # id}

\* setTimeout(() => onChange(val), debounce) of an input
setTimeout(pending, id, c, val) ==
    pending \cup {[id |-> id, input |-> c, val |-> val, remaining |-> debounce]}

\* the timers that are due
DueTimers == {t \in timers : t.remaining = 0}

\* variant: handleChange does not clear the previous timer
Keystroke_NoClear(c, val) ==
    /\ nextTimerId <= MaxKeystrokes
    /\ DueTimers = {}
    /\ val # dbValue[c]
    /\ dbValue' = [dbValue EXCEPT ![c] = val]
    /\ timers' = setTimeout(timers, nextTimerId, c, val)
    /\ timerRef' = [timerRef EXCEPT ![c] = nextTimerId]
    /\ nextTimerId' = nextTimerId + 1
    /\ sinceKey' = [sinceKey EXCEPT ![c] = 0]
    /\ bursts' = [bursts EXCEPT ![c] = IF sinceKey[c] < debounce THEN @ ELSE @ + 1]
    /\ ev' = [type |-> "keystroke", col |-> c, arg |-> Null]
    /\ UNCHANGED <<dbText, commits>>
    /\ UNCHANGED outsideTimers

\* handleChange: setValue(val); clearTimeout(timerRef.current);
\* timerRef.current = setTimeout(() => onChange(val), debounce)
Keystroke(c, val) ==
    /\ nextTimerId <= MaxKeystrokes
    /\ DueTimers = {}
    /\ val # dbValue[c]
    /\ dbValue' = [dbValue EXCEPT ![c] = val]
    /\ timers' = setTimeout(clearTimeout(timers, timerRef[c]), nextTimerId, c, val)
    /\ timerRef' = [timerRef EXCEPT ![c] = nextTimerId]
    /\ nextTimerId' = nextTimerId + 1
    /\ sinceKey' = [sinceKey EXCEPT ![c] = 0]
    /\ bursts' = [bursts EXCEPT ![c] = IF sinceKey[c] < debounce THEN @ ELSE @ + 1]
    /\ ev' = [type |-> "keystroke", col |-> c, arg |-> Null]
    /\ UNCHANGED <<dbText, commits>>
    /\ UNCHANGED outsideTimers

\* a due timer's callback: onChange(val), which sets the text of the
\* ColumnFilter; the effect on initialValue then sets the input's value
TimerExpire(t) ==
    /\ t \in DueTimers
    /\ timers' = timers \ {t}
    /\ commits' = [commits EXCEPT ![t.input] = Append(@, t.val)]
    /\ dbText' = [dbText EXCEPT ![t.input] = t.val]
    /\ dbValue' = IF dbText[t.input] # t.val
                  THEN [dbValue EXCEPT ![t.input] = t.val] ELSE dbValue
    /\ ev' = [type |-> "expire", col |-> t.input, arg |-> Null]
    /\ UNCHANGED <<timerRef, nextTimerId, sinceKey, bursts>>
    /\ UNCHANGED outsideTimers

\* time passes, up to the next deadline
Elapse(d) ==
    LET e == IF \E t \in timers : t.remaining < d
             THEN CHOOSE r \in {t.remaining : t \in timers} :
                     \A t \in timers : r <= t.remaining
             ELSE d
    IN  /\ e > 0
        /\ timers # {} \/ \E c \in DebounceInputs : sinceKey[c] < debounce
        /\ timers' = {[t EXCEPT !.remaining = @ - e] : t \in timers}
        /\ sinceKey' = [c \in DebounceInputs |-> Min2(sinceKey[c] + e, debounce)]
        /\ ev' = [type |-> "elapse", col |-> Null, arg |-> Null]
        /\ UNCHANGED <<dbValue, dbText, timerRef, nextTimerId, commits, bursts>>
        /\ UNCHANGED outsideTimers

TimePasses == \E d \in Elapses : Elapse(d)

TimersRun == \E t \in timers : TimerExpire(t)

DebounceNext ==
    \/ \E c \in DebounceInputs, val \in DebounceTexts : Keystroke(c, val)
    \/ TimersRun
    \/ TimePasses

SpecDebounce == Init /\ [][DebounceNext]_vars

\* time passes and due timers run
SpecDebounceLive == SpecDebounce /\ WF_vars(TimePasses) /\ WF_vars(TimersRun)

\* the pending commits of an input
PendingOf(c) == {t \in timers : t.input = c}

\* C26: each keystroke in a filter input cancels that input's pending commit
\* and schedules a new one, so at most one commit is pending per input at
\* any time; a burst of keystrokes, each arriving within the delay of the
\* previous one, produces exactly one commit, which carries the last typed
\* value: no commit happens inside a burst, the commits of an input are as
\* many as its bursts (one less while the commit of the last burst is
\* pending), and a pending commit is eventually made.
C26_Debounce ==
    /\ [](\A c \in DebounceInputs :
            /\ Cardinality(PendingOf(c)) <= 1
            /\ Len(commits[c]) = bursts[c] - Cardinality(PendingOf(c))
            /\ \A t \in PendingOf(c) : t.val = dbValue[c])
    /\ [][\A c \in DebounceInputs :
            /\ (\E val \in DebounceTexts : Keystroke(c, val)) =>
                  /\ PendingOf(c) \cap PendingOf(c)' = {}
                  /\ \E t \in timers' : /\ PendingOf(c)' = {t}
                                        /\ t.val = dbValue'[c]
                                        /\ t.remaining = debounce
                  /\ \A o \in DebounceInputs \ {c} : PendingOf(o)' = PendingOf(o)
                  /\ commits' = commits
            /\ commits'[c] # commits[c] =>
                  /\ commits'[c] = Append(commits[c], dbValue[c])
                  /\ sinceKey[c] = debounce]_vars
    /\ \A c \in DebounceInputs : (PendingOf(c) # {}) ~> (PendingOf(c) = {})

\* two keystrokes in the name input, the second within the delay of the
\* first, have produced one commit, of the second value
C26_Witness ==
    /\ bursts["name"] = 1
    /\ timerRef["name"] = 2
    /\ nextTimerId = 3
    /\ timers = {}
    /\ commits["name"] = << <<"a", "b">> >>
    /\ dbText["name"] = <<"a", "b">>

(***************************************************************************)
(* ClientList: the paginated fetch on mount and the collaborator writes.   *)
(* A request and its response are two steps; the collaborator reads and    *)
(* writes its table when it responds.  A handler closes over the row list  *)
(* of the render it was created in.                                        *)
(***************************************************************************)
\* const pageSize = 1000
fetchPageSize == 1000

\* most writes in flight, most writes of a behaviour
MaxPendingWrites == 2

MaxWrites == 2

\* rows of the loaded list of the specification of the writes
NumListRows == 2

\* err.message
ErrorMessage == "error"

\* the stored rows: ids 1..n
StoredRow(i) ==
    Client(i, StrCell(<<"a">>), NullCell, NullCell, NullCell, Instant(2024, 3, 4, 10))

StoredTable(n) == [rows |-> [i \in 1..n |-> StoredRow(i)], nextId |-> n + 1]

\* table sizes: empty, less than a page, a page, a page and a row
TableSizes == {0, 1, fetchPageSize, fetchPageSize + 1}

\* variant: the range has one row more
Range_OneMore(rows, from, to) == SubSeq(rows, from + 1, Min2(to + 2, Len(rows)))

\* .range(from, to): the rows at the zero-based positions from..to
Range(rows, from, to) == SubSeq(rows, from + 1, Min2(to + 1, Len(rows)))

\* the loop goes on unless `!data || data.length < pageSize`
FetchContinues(data) == ~ (Len(data) < fetchPageSize)

\* a response of the collaborator to the pending request of fetchClients,
\* and what follows it up to the next await or the end of the function
FetchResponse(outcome) ==
    /\ fetch.pc = "awaiting"
    /\ IF outcome = "error"
       THEN /\ error' = ErrorMessage
            /\ fetch' = [fetch EXCEPT !.pc = "done"]
            /\ clients' = fetch.allData
            /\ loading' = FALSE
            /\ fetchDisturbed' = TRUE
       ELSE LET data == Range(table.rows, fetch.from, fetch.from + fetchPageSize - 1)
                all == fetch.allData \o data
            IN  /\ IF FetchContinues(data)
                   THEN /\ fetch' = [pc |-> "awaiting", allData |-> all,
                                     from |-> fetch.from + fetchPageSize]
                        /\ UNCHANGED <<clients, loading>>
                   ELSE /\ fetch' = [fetch EXCEPT !.pc = "done", !.allData = all]
                        /\ clients' = all
                        /\ loading' = FALSE
                /\ UNCHANGED <<error, fetchDisturbed>>
    /\ ev' = [type |-> "fetchResponse", col |-> Null, arg |-> outcome]
    /\ UNCHANGED <<table, form, pendingWrites, writeCount>>
    /\ UNCHANGED outsideList

\* text.trim()
RECURSIVE TrimStart(_)
TrimStart(text) ==
    IF text # << >> /\ text[1] = " " THEN TrimStart(Tail(text)) ELSE text

RECURSIVE TrimEnd(_)
TrimEnd(text) ==
    IF text # << >> /\ text[Len(text)] = " "
    THEN TrimEnd(SubSeq(text, 1, Len(text) - 1)) ELSE text

Trim(text) == TrimEnd(TrimStart(text))

\* text.trim() || null
TrimOrNull(text) == IF Trim(text) = EmptyText THEN NullCell ELSE StrCell(Trim(text))

\* the record handleSubmit sends
FormRecord(f) ==
    [name |-> StrCell(Trim(f.name)), email |-> TrimOrNull(f.email),
     phone |-> TrimOrNull(f.phone), company |-> TrimOrNull(f.company)]

\* { ...c, ...record }
Merged(c, record) ==
    [c EXCEPT !.name = record.name, !.email = record.email,
              !.phone = record.phone, !.company = record.company]

\* the row the collaborator stores for an inserted record
InsertedRow(id, record) ==
    Client(id, record.name, record.email, record.phone, record.company,
           Instant(2024, 3, 4, 11))

\* the collaborator's table after a write
Stored(t, w) ==
    CASE w.kind = "insert" ->
            [rows |-> <<InsertedRow(t.nextId, w.record)>> \o t.rows, nextId |-> t.nextId + 1]
      [] w.kind = "update" ->
            [t EXCEPT !.rows = [i \in 1..Len(t.rows) |->
                                  IF t.rows[i].id = w.id THEN Merged(t.rows[i], w.record)
                                  ELSE t.rows[i]]]
      [] w.kind = "delete" ->
            [t EXCEPT !.rows = SelectSeq(t.rows, LAMBDA c : c.id # w.id)]

\* the argument of setClients after a successful write: computed from the
\* row list the handler closed over
LocalRows(w, t) ==
    CASE w.kind = "insert" -> <<InsertedRow(t.nextId, w.record)>> \o w.clients
      [] w.kind = "update" ->
            [i \in 1..Len(w.clients) |->
                IF w.clients[i].id = w.id THEN Merged(w.clients[i], w.record)
                ELSE w.clients[i]]
      [] w.kind = "delete" -> SelectSeq(w.clients, LAMBDA c : c.id # w.id)

\* variant: the local change is applied whatever the collaborator answers
RowsAfter_Optimistic(w, t, outcome, rows) == LocalRows(w, t)

\* the row list after the response to a write
RowsAfter(w, t, outcome, rows) == IF outcome = "error" THEN rows ELSE LocalRows(w, t)

\* typing into the name field of the form
TypeName(val) ==
    /\ val # form.name
    /\ form' = [form EXCEPT !.name = val]
    /\ ev' = [type |-> "typeName", col |-> Null, arg |-> Null]
    /\ UNCHANGED <<clients, table, error, loading, fetch, pendingWrites, fetchDisturbed,
                   writeCount>>
    /\ UNCHANGED outsideList

\* startEdit(client), the grid's onEdit
StartEdit(id) ==
    /\ \E i \in 1..Len(clients) : clients[i].id = id
    /\ LET client == RowById(clients, id)
       IN  form' = [editingId |-> client.id, name |-> client.name.str,
                    email |-> JsStringOrEmpty(client.email),
                    phone |-> JsStringOrEmpty(client.phone),
                    company |-> JsStringOrEmpty(client.company)]
    /\ ev' = [type |-> "startEdit", col |-> Null, arg |-> Null]
    /\ UNCHANGED <<clients, table, error, loading, fetch, pendingWrites, fetchDisturbed,
                   writeCount>>
    /\ UNCHANGED outsideList

\* a write is requested
Requested(w) ==
    /\ writeCount < MaxWrites
    /\ Len(pendingWrites) < MaxPendingWrites
    /\ pendingWrites' = Append(pendingWrites, w)
    /\ writeCount' = writeCount + 1
    /\ ev' = [type |-> "write", col |-> Null, arg |-> w.kind]
    /\ UNCHANGED <<clients, table, error, loading, fetch, form, fetchDisturbed>>
    /\ UNCHANGED outsideList

\* handleSubmit up to its await: an update of the edited row, or an insert
HandleSubmit ==
    /\ Trim(form.name) # EmptyText
    /\ Requested([kind |-> IF form.editingId # NoRowId THEN "update" ELSE "insert",
                  id |-> form.editingId, record |-> FormRecord(form),
                  clients |-> clients])

\* deleteClient(id) up to its await, the grid's onDelete
DeleteClient(id) ==
    /\ \E i \in 1..Len(clients) : clients[i].id = id
    /\ Requested([kind |-> "delete", id |-> id, record |-> FormRecord(EmptyForm),
                  clients |-> clients])

\* the response to a write, and the rest of its handler
WriteSettle(k, outcome) ==
    /\ k \in 1..Len(pendingWrites)
    /\ LET w == pendingWrites[k]
       IN  /\ pendingWrites' = SubSeq(pendingWrites, 1, k - 1)
                                  \o SubSeq(pendingWrites, k + 1, Len(pendingWrites))
           /\ clients' = RowsAfter(w, table, outcome, clients)
           /\ IF outcome = "error"
              THEN /\ error' = ErrorMessage
                   /\ UNCHANGED <<table, form, fetchDisturbed>>
              ELSE /\ table' = Stored(table, w)
                   /\ form' = IF w.kind = "delete" THEN form ELSE EmptyForm
                   /\ fetchDisturbed' =
                         (fetchDisturbed \/ (fetch.pc # "done" /\ table' # table))
                   /\ UNCHANGED error
           /\ ev' = [type |-> "writeSettle", col |-> w.kind, arg |-> outcome]
    /\ UNCHANGED <<loading, fetch, writeCount>>
    /\ UNCHANGED outsideList

WriteOutcomes == {"ok", "error"}

\* what is typed into the name field
FormNames == {<<"c">>, <<" ">>}

\* ClientList as mounted: the effect has sent the first request
InitMount ==
    /\ InitGrid
    /\ clients = << >>
    /\ filterCall = NoCall
    /\ groupCall = NoGroupCall
    /\ exportCall = NoExportCall
    /\ fieldCall = NoFieldCall
    /\ pagerCall = NoPagerCall
    /\ table \in {StoredTable(n) : n \in TableSizes}
    /\ error = Null
    /\ loading = TRUE
    /\ fetch = [pc |-> "awaiting", allData |-> << >>, from |-> 0]
    /\ form = EmptyForm
    /\ pendingWrites = << >>
    /\ fetchDisturbed = FALSE
    /\ writeCount = 0

FetchResponds == \E outcome \in WriteOutcomes : FetchResponse(outcome)

FetchNext ==
    \/ FetchResponds
    \/ \E val \in FormNames : TypeName(val)
    \/ HandleSubmit
    \/ \E k \in 1..MaxPendingWrites, outcome \in WriteOutcomes : WriteSettle(k, outcome)

SpecFetch == InitMount /\ [][FetchNext]_vars

\* the collaborator answers every request of the fetch
SpecFetchLive == SpecFetch /\ WF_vars(FetchResponds)

\* ClientList after a fetch of NumListRows rows
InitLoaded ==
    /\ InitGrid
    /\ clients = StoredTable(NumListRows).rows
    /\ filterCall = NoCall
    /\ groupCall = NoGroupCall
    /\ exportCall = NoExportCall
    /\ fieldCall = NoFieldCall
    /\ pagerCall = NoPagerCall
    /\ table = StoredTable(NumListRows)
    /\ error = Null
    /\ loading = FALSE
    /\ fetch = [pc |-> "done", allData |-> StoredTable(NumListRows).rows, from |-> 0]
    /\ form = EmptyForm
    /\ pendingWrites = << >>
    /\ fetchDisturbed = FALSE
    /\ writeCount = 0

\* the rows whose buttons are clicked
ListRowIds == 1..NumListRows

WritesNext ==
    \/ \E val \in FormNames : TypeName(val)
    \/ \E id \in ListRowIds : StartEdit(id)
    \/ HandleSubmit
    \/ \E id \in ListRowIds : DeleteClient(id)
    \/ \E k \in 1..MaxPendingWrites, outcome \in WriteOutcomes : WriteSettle(k, outcome)

SpecWrites == InitLoaded /\ [][WritesNext]_vars

(***************************************************************************)
(* Claims about the collaborator calls of ClientList.                      *)
(***************************************************************************)
\* C27: when an insert, update or delete fails, the completion leaves the
\* local row list as it was and records the error message; the row list
\* changes only with a successful completion.
C27_FailedWriteKeepsRows ==
    /\ [][(ev'.type = "writeSettle" /\ ev'.arg = "error")
             => (clients' = clients /\ error' = ErrorMessage)]_vars
    /\ [][(clients' # clients) => (ev'.type = "writeSettle" /\ ev'.arg = "ok")]_vars

\* a delete has failed while the form was being filled in
C27_Witness ==
    /\ ev.type = "writeSettle"
    /\ ev.col = "delete"
    /\ ev.arg = "error"
    /\ error = ErrorMessage
    /\ clients = table.rows

\* C28: when a request of the row fetch fails, on the first page or on a
\* later one, the error is recorded and the local row list is the one from
\* before the fetch.
C28_FailedFetchKeepsRows ==
    [][(ev'.type = "fetchResponse" /\ ev'.arg = "error")
          => (error' = ErrorMessage /\ clients' = clients)]_vars

\* C29: a fetch that no error and no change of the table disturbs ends, and
\* when it ends the local row list is the stored rows, each once, in the
\* collaborator's order.
C29_CompleteFetch ==
    /\ [][(fetch.pc # "done" /\ fetch'.pc = "done" /\ ~ fetchDisturbed')
             => (clients' = table'.rows /\ loading' = FALSE)]_vars
    /\ <>(fetch.pc = "done")

\* a table of exactly one page has been fetched with a second, empty request
C29_Witness ==
    /\ fetch.pc = "done"
    /\ ~ fetchDisturbed
    /\ fetch.from = fetchPageSize
    /\ Len(clients) = fetchPageSize
    /\ clients = table.rows

\* the ids of the rows of a row list
RowIds(rows) == {rows[i].id : i \in 1..Len(rows)}

\* C33 as stated: a write completion never re-introduces a row removed by an
\* earlier completion: every row of the local row list after a completion was
\* in it before, or is the row a successful insert has just stored; so after
\* two deletes issued together have both succeeded neither row is listed.
C33_NoRowComesBack ==
    [][ev'.type = "writeSettle" =>
          \A id \in RowIds(clients') :
              \/ id \in RowIds(clients)
              \/ (ev'.col = "insert" /\ ev'.arg = "ok" /\ id = table.nextId)]_vars

(***************************************************************************)
(* Selection while the row list changes: the grid of a loaded ClientList.  *)
(***************************************************************************)
SelectWritesNext ==
    \/ \E id \in ListRowIds : ToggleRowSelected(id)
    \/ ClearSelection
    \/ \E val \in FormNames : TypeName(val)
    \/ HandleSubmit
    \/ \E id \in ListRowIds : DeleteClient(id)
    \/ \E k \in 1..MaxPendingWrites, outcome \in WriteOutcomes : WriteSettle(k, outcome)

SpecSelectWrites == InitLoaded /\ [][SelectWritesNext]_vars

\* the records the selection refers to: those whose Row.id is a selection key
SelectedRecords(rows, selection) ==
    {rows[i].id : i \in {j \in 1..Len(rows) : RowIdOf(rows, rows[j].id) \in selection}}

\* the selection keys that are the Row.id of a loaded row
LoadedKeys(rows) == {RowIdOf(rows, rows[i].id) : i \in 1..Len(rows)}

\* C39 as stated: when the completion of a write deletes a row that is not
\* selected from the row list or inserts a row into it, the selected rows
\* are the same records as before, and every selection key is the Row.id of
\* a loaded row.
C39_SelectionTracksRows ==
    [][(ev'.type = "writeSettle" /\ RowIds(clients') # RowIds(clients)
          /\ rowSelection \subseteq LoadedKeys(clients)
          /\ (RowIds(clients) \ RowIds(clients'))
                \cap SelectedRecords(clients, rowSelection) = {})
          => /\ SelectedRecords(clients', rowSelection')
                   = SelectedRecords(clients, rowSelection)
             /\ rowSelection' \subseteq LoadedKeys(clients')]_vars

(***************************************************************************)
(* The page buttons of the pager.                                          *)
(***************************************************************************)
\* most pages of a pager
MaxPageCount == 13

\* variant: the window is centred on the current page up to the last page
PagerPage_NoTail(pageCount, pageIndex, i) ==
    IF pageCount <= 7 THEN i
    ELSE IF pageIndex < 4 THEN i
    ELSE pageIndex - 3 + i

\* the page of the i-th button, i from 0
PagerPage(pageCount, pageIndex, i) ==
    IF pageCount <= 7 THEN i
    ELSE IF pageIndex < 4 THEN i
    ELSE IF pageIndex > pageCount - 5 THEN pageCount - 7 + i
    ELSE pageIndex - 3 + i

\* Array.from({ length: Math.min(table.getPageCount(), 7) }, (_, i) => ...):
\* the pages of the page buttons, in order
PagerButtons(pageCount, pageIndex) ==
    [k \in 1..Min2(pageCount, 7) |-> PagerPage(pageCount, pageIndex, k - 1)]

\* a pager of 1..MaxPageCount pages on any of its pages
InitPager ==
    /\ InitGrid
    /\ clients = << >>
    /\ filterCall = NoCall
    /\ groupCall = NoGroupCall
    /\ exportCall = NoExportCall
    /\ fieldCall = NoFieldCall
    /\ InitListIdle
    /\ \E pc \in 1..MaxPageCount, pi \in 0..(MaxPageCount - 1) :
          /\ pi < pc
          /\ pagerCall = [pageCount |-> pc, pageIndex |-> pi, buttons |-> << >>,
                          done |-> FALSE]

\* the pager renders its page buttons
RenderPager ==
    /\ ~ pagerCall.done
    /\ pagerCall' = [pagerCall EXCEPT
                        !.buttons = PagerButtons(pagerCall.pageCount, pagerCall.pageIndex),
                        !.done = TRUE]
    /\ ev' = [type |-> "pager", col |-> Null, arg |-> Null]
    /\ UNCHANGED <<outsideIo, exportCall, fieldCall>>

PagerNext == RenderPager

SpecPager == InitPager /\ [][PagerNext]_vars

\* C40: for every page count >= 1 and every page index of it, the pager
\* shows min(pageCount, 7) page buttons, on consecutive pages, pairwise
\* distinct, all within 0..pageCount-1, one of them the current page.
C40_PagerWindow ==
    pagerCall.done =>
        LET b == pagerCall.buttons
            pc == pagerCall.pageCount
        IN  /\ Len(b) = (IF pc < 7 THEN pc ELSE 7)
            /\ \A k \in 1..Len(b) : b[k] >= 0 /\ b[k] <= pc - 1
            /\ \A k \in 1..(Len(b) - 1) : b[k + 1] = b[k] + 1
            /\ \A k, l \in 1..Len(b) : k # l => b[k] # b[l]
            /\ \E k \in 1..Len(b) : b[k] = pagerCall.pageIndex

\* the window of a long pager on one of its last pages
C40_Witness ==
    /\ pagerCall.done
    /\ pagerCall.pageCount > 7
    /\ pagerCall.pageIndex = pagerCall.pageCount - 2
    /\ pagerCall.buttons[7] = pagerCall.pageCount - 1
    /\ pagerCall.buttons[1] = pagerCall.pageCount - 7

====
